---- MODULE Spec2Model ----
(***************************************************************************)
(* A model of the ingestion side of the RAG pipeline: container creation   *)
(* and CSV ingestion for the three backends (FAISS blob in MongoDB,        *)
(* Qdrant collection with MongoDB sidecar, OpenSearch index).              *)
(*                                                                         *)
(* Request handlers and background tasks run on worker threads (they are   *)
(* plain `def` functions under FastAPI), so every call to MongoDB, Qdrant, *)
(* OpenSearch or the embedding endpoint is one atomic step of a thread and *)
(* steps of different threads interleave freely.  Local computation        *)
(* between two calls is folded into the step of the call that follows it.  *)
(***************************************************************************)
EXTENDS Integers, Sequences, FiniteSets, TLC

\* ---------------------------------------------------------------- bounds
NumThreads == 2     \* worker threads
MaxCalls == 3       \* calls (create, ingest) started in one behaviour
MaxRecords == 4     \* chunk records one CSV yields
MaxBatchSize == 3   \* largest settings.BATCH_SIZE
MaxVectors == 3     \* vectors written to one blob by keyed writes
MaxStored == 3      \* chunks of a container a query runs against
LargeStored == 11   \* chunks of the one large container a query runs against
MaxTopK == 2        \* largest top_k of a query
MaxRows == 3        \* rows of a CSV read row by row
MaxWords == 3       \* largest settings.CHUNK_MAX_WORDS
MaxOverlap == 2     \* largest settings.CHUNK_OVERLAP
MaxSentences == 3   \* sentences of a text passed to the chunker
MaxSentenceWords == 3  \* words of one sentence
MaxRuns == 2        \* ingestion runs of one source, one after another
MaxFrameRecords == 2  \* chunk records of a run beside runs on other containers

\* ------------------------------------------------------ program constants
EmbeddingDimension == 256

Threads == 1..NumThreads
Names == {"kb"}
Dimensions == {EmbeddingDimension, 2 * EmbeddingDimension}
Categories == {"a", "b"}

VARIABLES
    settings,            \* app.core.config.settings (BATCH_SIZE)
    faiss_indices,       \* mongo_client.db["faiss_indices"], insertion order
    faiss_chunks,        \* mongo_client.db["faiss_chunks"]
    qdrant_collections,  \* mongo_client.db["qdrant_collections"], insertion order
    qdrant_chunks,       \* mongo_client.db["qdrant_chunks"]
    qdrant,              \* the Qdrant service: collection name -> collection
    opensearch,          \* the OpenSearch service: index name -> index
    thread               \* per worker thread: the call it runs and its locals

vars == <<settings, faiss_indices, faiss_chunks, qdrant_collections,
          qdrant_chunks, qdrant, opensearch, thread>>

faissVars == <<faiss_indices, faiss_chunks>>
qdrantVars == <<qdrant_collections, qdrant_chunks, qdrant>>
stores == <<faiss_indices, faiss_chunks, qdrant_collections, qdrant_chunks,
            qdrant, opensearch>>

\* ---------------------------------------------------------------- helpers
Min(a, b) == IF a < b THEN a ELSE b

Range(s) == {s[x] : x \in DOMAIN s}

\* One external call as it appears in a thread's call log: the call, the
\* offset i of the batch it belongs to (-1 outside the batch loop) and the
\* texts or keys it carries, and whether the call raised.
Ev(call, batch, ids) ==
    [call |-> call, batch |-> batch, ids |-> ids, raised |-> FALSE]

Raised(e) == [e EXCEPT !.raised = TRUE]

\* uuid.uuid4(): a fresh identifier.  Uniqueness is modelled by deriving the
\* value from the minting thread, the ordinal of its call and the position
\* of the record.
uuid4(t, k, m) == t * 100 + k * 10 + m

\* _id_to_int: a deterministic digest of the chunk id reduced modulo a
\* prime.  SHA-256 and the modulus 2^63 - 1 are scaled down to a
\* multiplicative hash that fits TLC's integers.
_id_to_int(sid) == (sid * 7919) % 1000003

\* A live FAISS index (IndexIDMap over IndexFlatIP): its dimension and the
\* integer keys of its vectors in insertion order (ntotal = Len(ids)).
IndexIDMap(d) == [d |-> d, ids |-> <<>>]
ntotal(index) == Len(index.ids)

\* faiss.write_index into a buffer: header (dimension, ntotal) then payload.
_serialize_faiss_index(index) == <<index.d, Len(index.ids), index.ids>>

\* faiss.read_index from the stored bytes.
_deserialize_faiss_index(index_bytes) ==
    [d |-> index_bytes[1], ids |-> SubSeq(index_bytes[3], 1, index_bytes[2])]

\* IndexIDMap.add_with_ids appends; it does not look for an existing key.
add_with_ids(index, int_ids) == [index EXCEPT !.ids = @ \o int_ids]

\* records[i:i+batch_size] with a 0-based offset i.
Slice(records, i, batch_size) ==
    SubSeq(records, i + 1, Min(i + batch_size, Len(records)))

\* row.get(category_col): the CSV's category column; the categories of the
\* rows alternate.
CategoryOf(m) == IF m % 2 = 1 THEN "a" ELSE "b"

\* The chunk records of a CSV with a chunk_id derived from the position of
\* the chunk in the source instead of a fresh one.
PrepareRecords_by_position(t, k, n) ==
    [m \in 1..n |-> [chunk_id |-> uuid4(0, 0, m), text |-> m,
                     category |-> CategoryOf(m)]]

\* The chunk records a CSV yields: n chunks, each with a fresh chunk_id
\* (ingest_csv_to_faiss / ingest_csv_to_qdrant mint it while reading).
PrepareRecords(t, k, n) ==
    [m \in 1..n |-> [chunk_id |-> uuid4(t, k, m), text |-> m,
                     category |-> CategoryOf(m)]]

\* The chunk records of ingest_csv_to_index: no chunk_id yet.
PrepareTexts(n) ==
    [m \in 1..n |-> [chunk_id |-> 0, text |-> m, category |-> CategoryOf(m)]]

Texts(batch) == [x \in DOMAIN batch |-> batch[x].text]
ChunkIds(batch) == [x \in DOMAIN batch |-> batch[x].chunk_id]

\* The payloads a service holds after a write of `batch` under the keys
\* `ids`: the payload of a key written again is replaced.
Payloads(old, ids, batch) ==
    [id \in (DOMAIN old) \cup Range(ids) |->
        IF \E x \in DOMAIN ids : ids[x] = id
        THEN batch[CHOOSE x \in DOMAIN ids : ids[x] = id].category
        ELSE old[id]]
IntIds(batch) == [x \in DOMAIN batch |-> _id_to_int(batch[x].chunk_id)]

\* ---------------------------------------------------------- thread state
NoIndex == [d |-> 0, ids |-> <<>>]

Idle ==
    [op |-> "none", pc |-> "idle", name |-> "", dim |-> 0, records |-> <<>>,
     i |-> 0, j |-> 0, index |-> NoIndex, count |-> 0, actions |-> <<>>,
     result |-> "none", log |-> <<>>, k |-> 0]

\* The number of calls started so far, over the threads ts.
RECURSIVE CallsStarted(_)
CallsStarted(ts) ==
    IF ts = {} THEN 0
    ELSE LET t == CHOOSE x \in ts : TRUE
         IN  thread[t].k + CallsStarted(ts \ {t})

\* A thread takes the next request when it runs no call.
CanStart(t) ==
    /\ thread[t].pc \in {"idle", "done"}
    /\ CallsStarted(Threads) < MaxCalls

\* The locals of a call that thread t starts now.
Begin(t, op, name, dim) ==
    [Idle EXCEPT !.op = op, !.pc = "start", !.name = name, !.dim = dim,
                 !.k = thread[t].k + 1]

\* The call returns (result "ok") or raises (any other result).
Return(r, result) == [r EXCEPT !.pc = "done", !.result = result]

Logged(r, e) == [r EXCEPT !.log = Append(@, e)]

\* The call logged last raised: the exception leaves the function.
Raise(r, result) ==
    [r EXCEPT !.log[Len(r.log)] = Raised(@), !.pc = "done", !.result = result]

At(t, op, pc) == thread[t].op = op /\ thread[t].pc = pc

Set(t, r) == thread' = [thread EXCEPT ![t] = r]

\* ------------------------------------------------------- MongoDB helpers
\* Collection.find_one({"index_name": name}): the matches in natural order.
FaissMatches(name) == SelectSeq(faiss_indices, LAMBDA d : d.index_name = name)
QdrantMatches(name) ==
    SelectSeq(qdrant_collections, LAMBDA d : d.collection_name = name)

\* Position of the first document matching the filter, 0 when none does.
FirstFaiss(name) ==
    IF \E x \in DOMAIN faiss_indices : faiss_indices[x].index_name = name
    THEN CHOOSE x \in DOMAIN faiss_indices :
            /\ faiss_indices[x].index_name = name
            /\ \A y \in 1..(x - 1) : faiss_indices[y].index_name # name
    ELSE 0

FirstQdrant(name) ==
    IF \E x \in DOMAIN qdrant_collections :
            qdrant_collections[x].collection_name = name
    THEN CHOOSE x \in DOMAIN qdrant_collections :
            /\ qdrant_collections[x].collection_name = name
            /\ \A y \in 1..(x - 1) :
                   qdrant_collections[y].collection_name # name
    ELSE 0

\* Collection.replace_one({"chunk_id": id}, doc, upsert=True).
replace_one(coll, doc) == {d \in coll : d.chunk_id # doc.chunk_id} \cup {doc}

\* ------------------------------------------------- faiss_service.py
\* create_faiss_index without its existence check.
create_faiss_index_find_unchecked(t, name, dim) ==
    /\ CanStart(t)
    /\ LET r == Logged(Begin(t, "create_faiss_index", name, dim),
                       Ev("find_one", -1, <<>>))
       IN  Set(t, [r EXCEPT !.pc = "insert_one"])
    /\ UNCHANGED <<settings, stores>>

\* create_faiss_index, lines 57-62: the existence check.
create_faiss_index_find(t, name, dim) ==
    /\ CanStart(t)
    /\ LET r == Logged(Begin(t, "create_faiss_index", name, dim),
                       Ev("find_one", -1, <<>>))
       IN  IF FaissMatches(name) # <<>>
           THEN Set(t, Return(r, "ValueError: already exists"))
           ELSE Set(t, [r EXCEPT !.pc = "insert_one"])
    /\ UNCHANGED <<settings, stores>>

\* create_faiss_index, lines 64-82: build the empty index and insert it.
create_faiss_index_insert(t) ==
    /\ At(t, "create_faiss_index", "insert_one")
    /\ LET r == thread[t]
           index_doc ==
               [index_name |-> r.name, dimension |-> r.dim, num_vectors |-> 0,
                index_data |-> _serialize_faiss_index(IndexIDMap(r.dim))]
       IN  /\ faiss_indices' = Append(faiss_indices, index_doc)
           /\ Set(t, Return(Logged(r, Ev("insert_one", -1, <<>>)), "ok"))
    /\ UNCHANGED <<settings, faiss_chunks, qdrantVars, opensearch>>

\* ingest_csv_to_faiss, lines 107-157: read the stored blob, deserialize it
\* and prepare the chunk records (n of them) from the CSV.
ingest_csv_to_faiss_find(t, name, n) ==
    /\ CanStart(t)
    /\ LET r == Logged(Begin(t, "ingest_csv_to_faiss", name, 0),
                       Ev("find_one", -1, <<>>))
           found == FaissMatches(name)
       IN  IF found = <<>>
           THEN Set(t, Return(r, "ValueError: not found"))
           ELSE Set(t, [r EXCEPT
                    !.index = _deserialize_faiss_index(Head(found).index_data),
                    !.records = PrepareRecords(t, r.k, n),
                    !.pc = IF n = 0 THEN "update_one" ELSE "embed_batch"])
    /\ UNCHANGED <<settings, stores>>

\* ingest_csv_to_faiss, lines 159-174: embed the batch, then add it to the
\* in-memory index.  embed_batch raises on a transport error; add_with_ids
\* raises when the vectors do not have the index's dimension.
ingest_csv_to_faiss_embed(t, fail) ==
    /\ At(t, "ingest_csv_to_faiss", "embed_batch")
    /\ LET r == thread[t]
           batch == Slice(r.records, r.i, settings.BATCH_SIZE)
           r1 == Logged(r, Ev("embed_batch", r.i, Texts(batch)))
           r2 == Logged(r1, Ev("add_with_ids", r.i, ChunkIds(batch)))
       IN  IF fail
           THEN Set(t, Raise(r1, "embed_batch error"))
           ELSE IF r.index.d # EmbeddingDimension
           THEN Set(t, Raise(r2, "add_with_ids error"))
           ELSE Set(t, [r2 EXCEPT
                    !.index = add_with_ids(r.index, IntIds(batch)),
                    !.pc = "replace_one", !.j = 0])
    /\ UNCHANGED <<settings, stores>>

\* ingest_csv_to_faiss writing the metadata of the first record of each
\* batch only.
ingest_csv_to_faiss_meta_first_only(t) ==
    /\ At(t, "ingest_csv_to_faiss", "replace_one")
    /\ LET r == thread[t]
           batch == Slice(r.records, r.i, settings.BATCH_SIZE)
           record == batch[r.j + 1]
           chunk_doc == [chunk_id |-> record.chunk_id,
                         faiss_int_id |-> _id_to_int(record.chunk_id),
                         index_name |-> r.name,
                         category |-> record.category]
           r1 == Logged(r, Ev("replace_one", r.i, <<record.chunk_id>>))
           next_i == r.i + settings.BATCH_SIZE
       IN  /\ faiss_chunks' = replace_one(faiss_chunks, chunk_doc)
           /\ Set(t, [r1 EXCEPT !.i = next_i, !.j = 0,
                    !.pc = IF next_i < Len(r.records)
                           THEN "embed_batch" ELSE "update_one"])
    /\ UNCHANGED <<settings, faiss_indices, qdrantVars, opensearch>>

\* ingest_csv_to_faiss, lines 177-191: write the metadata of record j of
\* the batch; after the last one move to the next batch or to the save.
ingest_csv_to_faiss_meta(t) ==
    /\ At(t, "ingest_csv_to_faiss", "replace_one")
    /\ LET r == thread[t]
           batch == Slice(r.records, r.i, settings.BATCH_SIZE)
           record == batch[r.j + 1]
           chunk_doc == [chunk_id |-> record.chunk_id,
                         faiss_int_id |-> _id_to_int(record.chunk_id),
                         index_name |-> r.name,
                         category |-> record.category]
           r1 == Logged(r, Ev("replace_one", r.i, <<record.chunk_id>>))
           next_i == r.i + settings.BATCH_SIZE
       IN  /\ faiss_chunks' = replace_one(faiss_chunks, chunk_doc)
           /\ IF r.j + 1 < Len(batch)
              THEN Set(t, [r1 EXCEPT !.j = r.j + 1])
              ELSE Set(t, [r1 EXCEPT !.i = next_i, !.j = 0,
                       !.pc = IF next_i < Len(r.records)
                              THEN "embed_batch" ELSE "update_one"])
    /\ UNCHANGED <<settings, faiss_indices, qdrantVars, opensearch>>

\* ingest_csv_to_faiss storing the number of records of its own run as
\* num_vectors.
ingest_csv_to_faiss_save_own_count(t) ==
    /\ At(t, "ingest_csv_to_faiss", "update_one")
    /\ LET r == thread[t]
           x == FirstFaiss(r.name)
       IN  /\ faiss_indices' =
                 [y \in DOMAIN faiss_indices |->
                     IF y = x
                     THEN [faiss_indices[y] EXCEPT
                              !.index_data = _serialize_faiss_index(r.index),
                              !.num_vectors = Len(r.records)]
                     ELSE faiss_indices[y]]
           /\ Set(t, Return(Logged(r, Ev("update_one", -1, <<>>)), "ok"))
    /\ UNCHANGED <<settings, faiss_chunks, qdrantVars, opensearch>>

\* ingest_csv_to_faiss saving with an empty filter: update_one({}, ...)
\* overwrites the first record of the collection, whatever its name.
ingest_csv_to_faiss_save_unfiltered(t) ==
    /\ At(t, "ingest_csv_to_faiss", "update_one")
    /\ LET r == thread[t]
       IN  /\ faiss_indices' =
                 [y \in DOMAIN faiss_indices |->
                     IF y = 1
                     THEN [faiss_indices[y] EXCEPT
                              !.index_data = _serialize_faiss_index(r.index),
                              !.num_vectors = ntotal(r.index)]
                     ELSE faiss_indices[y]]
           /\ Set(t, Return(Logged(r, Ev("update_one", -1, <<>>)), "ok"))
    /\ UNCHANGED <<settings, faiss_chunks, qdrantVars, opensearch>>

\* ingest_csv_to_faiss, lines 193-206: serialize the in-memory index and
\* overwrite the stored blob and num_vectors of the first matching record.
ingest_csv_to_faiss_save(t) ==
    /\ At(t, "ingest_csv_to_faiss", "update_one")
    /\ LET r == thread[t]
           x == FirstFaiss(r.name)
       IN  /\ faiss_indices' =
                 [y \in DOMAIN faiss_indices |->
                     IF y = x
                     THEN [faiss_indices[y] EXCEPT
                              !.index_data = _serialize_faiss_index(r.index),
                              !.num_vectors = ntotal(r.index)]
                     ELSE faiss_indices[y]]
           /\ Set(t, Return(Logged(r, Ev("update_one", -1, <<>>)), "ok"))
    /\ UNCHANGED <<settings, faiss_chunks, qdrantVars, opensearch>>

\* A crashed or killed ingestion run stops where it is; nothing is rolled
\* back and nothing resumes it (background task, no job record).
Kill(t) ==
    /\ thread[t].op \in {"ingest_csv_to_faiss", "ingest_csv_to_qdrant",
                         "ingest_csv_to_index"}
    /\ thread[t].pc # "done"
    /\ Set(t, Return(thread[t], "killed"))
    /\ UNCHANGED <<settings, stores>>

\* ------------------------------------------------- qdrant_service.py
\* create_qdrant_collection, lines 40-45: the existence check (MongoDB).
create_qdrant_collection_find(t, name, dim) ==
    /\ CanStart(t)
    /\ LET r == Logged(Begin(t, "create_qdrant_collection", name, dim),
                       Ev("find_one", -1, <<>>))
       IN  IF QdrantMatches(name) # <<>>
           THEN Set(t, Return(r, "ValueError: already exists"))
           ELSE Set(t, [r EXCEPT !.pc = "recreate_collection"])
    /\ UNCHANGED <<settings, stores>>

\* create_qdrant_collection, lines 47-55: recreate_collection drops the
\* collection of that name, if any, and creates an empty one.
create_qdrant_collection_recreate(t, fail) ==
    /\ At(t, "create_qdrant_collection", "recreate_collection")
    /\ LET r == Logged(thread[t], Ev("recreate_collection", -1, <<>>))
       IN  IF fail
           THEN /\ Set(t, Raise(r, "recreate_collection error"))
                /\ UNCHANGED qdrant
           ELSE /\ qdrant' = [qdrant EXCEPT ![r.name] =
                       [exists |-> TRUE, dimension |-> r.dim, points |-> {},
                        payload |-> <<>>]]
                /\ Set(t, [r EXCEPT !.pc = "insert_one"])
    /\ UNCHANGED <<settings, faissVars, qdrant_collections, qdrant_chunks,
                   opensearch>>

\* create_qdrant_collection, lines 57-68: insert the metadata record.
create_qdrant_collection_insert(t) ==
    /\ At(t, "create_qdrant_collection", "insert_one")
    /\ LET r == thread[t]
           collection_doc ==
               [collection_name |-> r.name, dimension |-> r.dim,
                num_vectors |-> 0]
       IN  /\ qdrant_collections' = Append(qdrant_collections, collection_doc)
           /\ Set(t, Return(Logged(r, Ev("insert_one", -1, <<>>)), "ok"))
    /\ UNCHANGED <<settings, faissVars, qdrant_chunks, qdrant, opensearch>>

\* ingest_csv_to_qdrant without the check of the collection record.
ingest_csv_to_qdrant_find_unchecked(t, name, n) ==
    /\ CanStart(t)
    /\ LET r == Logged(Begin(t, "ingest_csv_to_qdrant", name, 0),
                       Ev("find_one", -1, <<>>))
       IN  Set(t, [r EXCEPT
                  !.records = PrepareRecords(t, r.k, n),
                  !.pc = IF n = 0 THEN "get_collection" ELSE "embed_batch"])
    /\ UNCHANGED <<settings, stores>>

\* ingest_csv_to_qdrant, lines 95-140: look the collection record up and
\* prepare the chunk records (n of them) from the CSV.
ingest_csv_to_qdrant_find(t, name, n) ==
    /\ CanStart(t)
    /\ LET r == Logged(Begin(t, "ingest_csv_to_qdrant", name, 0),
                       Ev("find_one", -1, <<>>))
       IN  IF QdrantMatches(name) = <<>>
           THEN Set(t, Return(r, "ValueError: not found"))
           ELSE Set(t, [r EXCEPT
                    !.records = PrepareRecords(t, r.k, n),
                    !.pc = IF n = 0 THEN "get_collection" ELSE "embed_batch"])
    /\ UNCHANGED <<settings, stores>>

\* ingest_csv_to_qdrant, lines 142-147: embed the batch.
ingest_csv_to_qdrant_embed(t, fail) ==
    /\ At(t, "ingest_csv_to_qdrant", "embed_batch")
    /\ LET r == thread[t]
           batch == Slice(r.records, r.i, settings.BATCH_SIZE)
           r1 == Logged(r, Ev("embed_batch", r.i, Texts(batch)))
       IN  IF fail
           THEN Set(t, Raise(r1, "embed_batch error"))
           ELSE Set(t, [r1 EXCEPT !.pc = "replace_one", !.j = 0])
    /\ UNCHANGED <<settings, stores>>

\* ingest_csv_to_qdrant, lines 149-178: build the point of record j of the
\* batch and write its metadata; the points are sent after the loop.
ingest_csv_to_qdrant_meta(t) ==
    /\ At(t, "ingest_csv_to_qdrant", "replace_one")
    /\ LET r == thread[t]
           batch == Slice(r.records, r.i, settings.BATCH_SIZE)
           record == batch[r.j + 1]
           chunk_doc == [chunk_id |-> record.chunk_id,
                         collection_name |-> r.name,
                         category |-> record.category]
           r1 == Logged(r, Ev("replace_one", r.i, <<record.chunk_id>>))
       IN  /\ qdrant_chunks' = replace_one(qdrant_chunks, chunk_doc)
           /\ IF r.j + 1 < Len(batch)
              THEN Set(t, [r1 EXCEPT !.j = r.j + 1])
              ELSE Set(t, [r1 EXCEPT !.j = 0, !.pc = "upsert"])
    /\ UNCHANGED <<settings, faissVars, qdrant_collections, qdrant,
                   opensearch>>

\* ingest_csv_to_qdrant writing the collection back as the points of its own
\* batch (a read-modify-write of local state instead of a remote upsert).
ingest_csv_to_qdrant_upsert_overwrite(t, fail) ==
    /\ At(t, "ingest_csv_to_qdrant", "upsert")
    /\ LET r == thread[t]
           batch == Slice(r.records, r.i, settings.BATCH_SIZE)
           r1 == Logged(r, Ev("upsert", r.i, ChunkIds(batch)))
           next_i == r.i + settings.BATCH_SIZE
       IN  IF fail \/ ~qdrant[r.name].exists
              \/ qdrant[r.name].dimension # EmbeddingDimension
           THEN /\ Set(t, Raise(r1, "upsert error"))
                /\ UNCHANGED qdrant
           ELSE /\ qdrant' = [qdrant EXCEPT
                               ![r.name].points = Range(ChunkIds(batch)),
                               ![r.name].payload =
                                   Payloads(<<>>, ChunkIds(batch), batch)]
                /\ Set(t, [r1 EXCEPT !.i = next_i,
                       !.pc = IF next_i < Len(r.records)
                              THEN "embed_batch" ELSE "get_collection"])
    /\ UNCHANGED <<settings, faissVars, qdrant_collections, qdrant_chunks,
                   opensearch>>

\* ingest_csv_to_qdrant with the upsert wrapped in a try/except that logs
\* the error and goes on with the next batch.
ingest_csv_to_qdrant_upsert_swallowed(t, fail) ==
    /\ At(t, "ingest_csv_to_qdrant", "upsert")
    /\ LET r == thread[t]
           batch == Slice(r.records, r.i, settings.BATCH_SIZE)
           r1 == Logged(r, Ev("upsert", r.i, ChunkIds(batch)))
           next_i == r.i + settings.BATCH_SIZE
           failed == fail \/ ~qdrant[r.name].exists
                     \/ qdrant[r.name].dimension # EmbeddingDimension
           r2 == IF failed
                 THEN [r1 EXCEPT !.log[Len(r1.log)] = Raised(@)] ELSE r1
       IN  /\ qdrant' = IF failed THEN qdrant
                        ELSE [qdrant EXCEPT
                               ![r.name].points = @ \cup Range(ChunkIds(batch)),
                               ![r.name].payload =
                                   Payloads(@, ChunkIds(batch), batch)]
           /\ Set(t, [r2 EXCEPT !.i = next_i,
                  !.pc = IF next_i < Len(r.records)
                         THEN "embed_batch" ELSE "get_collection"])
    /\ UNCHANGED <<settings, faissVars, qdrant_collections, qdrant_chunks,
                   opensearch>>

\* ingest_csv_to_qdrant, lines 180-187: upsert the batch's points.  The
\* call raises on a transport error and when the vectors do not have the
\* collection's dimension.
ingest_csv_to_qdrant_upsert(t, fail) ==
    /\ At(t, "ingest_csv_to_qdrant", "upsert")
    /\ LET r == thread[t]
           batch == Slice(r.records, r.i, settings.BATCH_SIZE)
           r1 == Logged(r, Ev("upsert", r.i, ChunkIds(batch)))
           next_i == r.i + settings.BATCH_SIZE
       IN  IF fail \/ ~qdrant[r.name].exists
              \/ qdrant[r.name].dimension # EmbeddingDimension
           THEN /\ Set(t, Raise(r1, "upsert error"))
                /\ UNCHANGED qdrant
           ELSE /\ qdrant' = [qdrant EXCEPT
                               ![r.name].points = @ \cup Range(ChunkIds(batch)),
                               ![r.name].payload =
                                   Payloads(@, ChunkIds(batch), batch)]
                /\ Set(t, [r1 EXCEPT !.i = next_i,
                       !.pc = IF next_i < Len(r.records)
                              THEN "embed_batch" ELSE "get_collection"])
    /\ UNCHANGED <<settings, faissVars, qdrant_collections, qdrant_chunks,
                   opensearch>>

\* ingest_csv_to_qdrant counting the records of its own run instead of
\* asking the collection.
ingest_csv_to_qdrant_count_own(t) ==
    /\ At(t, "ingest_csv_to_qdrant", "get_collection")
    /\ LET r == Logged(thread[t], Ev("get_collection", -1, <<>>))
       IN  Set(t, [r EXCEPT !.count = Len(r.records), !.pc = "update_one"])
    /\ UNCHANGED <<settings, stores>>

\* ingest_csv_to_qdrant, line 190: read the collection's points_count.
ingest_csv_to_qdrant_count(t) ==
    /\ At(t, "ingest_csv_to_qdrant", "get_collection")
    /\ LET r == Logged(thread[t], Ev("get_collection", -1, <<>>))
       IN  Set(t, [r EXCEPT !.count = Cardinality(qdrant[r.name].points),
                            !.pc = "update_one"])
    /\ UNCHANGED <<settings, stores>>

\* ingest_csv_to_qdrant, lines 191-199: store the count read before.
ingest_csv_to_qdrant_update(t) ==
    /\ At(t, "ingest_csv_to_qdrant", "update_one")
    /\ LET r == thread[t]
           x == FirstQdrant(r.name)
       IN  /\ qdrant_collections' =
                 [y \in DOMAIN qdrant_collections |->
                     IF y = x
                     THEN [qdrant_collections[y] EXCEPT
                              !.num_vectors = r.count]
                     ELSE qdrant_collections[y]]
           /\ Set(t, Return(Logged(r, Ev("update_one", -1, <<>>)), "ok"))
    /\ UNCHANGED <<settings, faissVars, qdrant_chunks, qdrant, opensearch>>

\* ------------------------------------- api/index.py, api/ingest.py,
\* ------------------------------------- services/ingest_service.py
\* create_index, lines 15-21: the existence check of the endpoint.
create_index_exists(t, name, dim) ==
    /\ CanStart(t)
    /\ LET r == Logged(Begin(t, "create_index", name, dim),
                       Ev("indices.exists", -1, <<>>))
       IN  IF opensearch[name].exists
           THEN Set(t, Return(r, "HTTP 400: already exists"))
           ELSE Set(t, [r EXCEPT !.pc = "indices.create"])
    /\ UNCHANGED <<settings, stores>>

\* create_index, lines 56-61: indices.create; any exception, such as the
\* service refusing a name that exists by now, becomes HTTP 500.
create_index_create(t, fail) ==
    /\ At(t, "create_index", "indices.create")
    /\ LET r == Logged(thread[t], Ev("indices.create", -1, <<>>))
       IN  IF fail \/ opensearch[r.name].exists
           THEN /\ Set(t, Raise(r, "HTTP 500"))
                /\ UNCHANGED opensearch
           ELSE /\ opensearch' = [opensearch EXCEPT ![r.name] =
                       [exists |-> TRUE, dimension |-> r.dim, docs |-> {},
                        payload |-> <<>>]]
                /\ Set(t, Return(r, "ok"))
    /\ UNCHANGED <<settings, faissVars, qdrantVars>>

\* start_ingest (api/ingest.py lines 20-33) and the head of
\* ingest_csv_to_index (lines 46-64): the endpoint refuses a missing index,
\* otherwise the background task reads the CSV into n chunk records.
start_ingest(t, name, n) ==
    /\ CanStart(t)
    /\ LET r == Logged(Begin(t, "ingest_csv_to_index", name, 0),
                       Ev("indices.exists", -1, <<>>))
       IN  IF ~opensearch[name].exists
           THEN Set(t, Return(r, "HTTP 400: does not exist"))
           ELSE Set(t, [r EXCEPT
                    !.records = PrepareTexts(n),
                    !.pc = IF n = 0 THEN "bulk" ELSE "embed_batch"])
    /\ UNCHANGED <<settings, stores>>

\* The actions _create_actions_from_records yields for one batch
\* (lines 20-38): one per record, in order, each with a fresh _id.
BatchActions(t, k, i, batch) ==
    [x \in DOMAIN batch |->
        [_id |-> uuid4(t, k, i + x), text |-> batch[x].text,
         category |-> batch[x].category]]

\* _create_actions_from_records advancing i by one record instead of by
\* batch_size.
_create_actions_from_records_step1(t, fail) ==
    /\ At(t, "ingest_csv_to_index", "embed_batch")
    /\ LET r == thread[t]
           batch == Slice(r.records, r.i, settings.BATCH_SIZE)
           r1 == Logged(r, Ev("embed_batch", r.i, Texts(batch)))
           next_i == r.i + 1
       IN  IF fail
           THEN Set(t, Raise(r1, "embed_batch error"))
           ELSE Set(t, [r1 EXCEPT
                    !.actions = @ \o BatchActions(t, r.k, r.i, batch),
                    !.i = next_i,
                    !.pc = IF next_i < Len(r.records)
                           THEN "embed_batch" ELSE "bulk"])
    /\ UNCHANGED <<settings, stores>>

\* _create_actions_from_records, lines 15-39: one turn of the while loop,
\* driven by bulk() pulling actions: embed the slice, yield its actions.
_create_actions_from_records(t, fail) ==
    /\ At(t, "ingest_csv_to_index", "embed_batch")
    /\ LET r == thread[t]
           batch == Slice(r.records, r.i, settings.BATCH_SIZE)
           r1 == Logged(r, Ev("embed_batch", r.i, Texts(batch)))
           next_i == r.i + settings.BATCH_SIZE
       IN  IF fail
           THEN Set(t, Raise(r1, "embed_batch error"))
           ELSE Set(t, [r1 EXCEPT
                    !.actions = @ \o BatchActions(t, r.k, r.i, batch),
                    !.i = next_i,
                    !.pc = IF next_i < Len(r.records)
                           THEN "embed_batch" ELSE "bulk"])
    /\ UNCHANGED <<settings, stores>>

\* ingest_csv_to_index, lines 66-74: bulk() sends the actions it pulled
\* (fewer than its chunk size here, so one request after the generator is
\* exhausted); an error is logged and raised again.
ingest_csv_to_index_bulk(t, fail) ==
    /\ At(t, "ingest_csv_to_index", "bulk")
    /\ LET r == thread[t]
           ids == [x \in DOMAIN r.actions |-> r.actions[x]._id]
           r1 == Logged(r, Ev("bulk", -1, ids))
       IN  IF r.actions = <<>>
           THEN /\ Set(t, Return(r, "ok"))
                /\ UNCHANGED opensearch
           ELSE IF fail \/ opensearch[r.name].dimension # EmbeddingDimension
           THEN /\ Set(t, Raise(r1, "bulk error"))
                /\ UNCHANGED opensearch
           ELSE /\ opensearch' = [opensearch EXCEPT
                                      ![r.name].docs = @ \cup Range(ids),
                                      ![r.name].payload =
                                          Payloads(@, ids, r.actions)]
                /\ Set(t, Return(r1, "ok"))
    /\ UNCHANGED <<settings, faissVars, qdrantVars>>

\* ---------------------------------------------------------- specification
Init ==
    /\ settings \in [BATCH_SIZE : 1..MaxBatchSize]
    /\ faiss_indices = <<>>
    /\ faiss_chunks = {}
    /\ qdrant_collections = <<>>
    /\ qdrant_chunks = {}
    /\ qdrant = [name \in Names |->
                    [exists |-> FALSE, dimension |-> 0, points |-> {},
                     payload |-> <<>>]]
    /\ opensearch = [name \in Names |->
                        [exists |-> FALSE, dimension |-> 0, docs |-> {},
                         payload |-> <<>>]]
    /\ thread = [t \in Threads |-> Idle]

Next ==
    \E t \in Threads :
        \/ \E name \in Names, dim \in Dimensions :
               create_faiss_index_find(t, name, dim)
        \/ create_faiss_index_insert(t)
        \/ \E name \in Names, n \in 0..MaxRecords :
               ingest_csv_to_faiss_find(t, name, n)
        \/ \E fail \in BOOLEAN : ingest_csv_to_faiss_embed(t, fail)
        \/ ingest_csv_to_faiss_meta(t)
        \/ ingest_csv_to_faiss_save(t)
        \/ Kill(t)
        \/ \E name \in Names, dim \in Dimensions :
               create_qdrant_collection_find(t, name, dim)
        \/ \E fail \in BOOLEAN : create_qdrant_collection_recreate(t, fail)
        \/ create_qdrant_collection_insert(t)
        \/ \E name \in Names, n \in 0..MaxRecords :
               ingest_csv_to_qdrant_find(t, name, n)
        \/ \E fail \in BOOLEAN : ingest_csv_to_qdrant_embed(t, fail)
        \/ ingest_csv_to_qdrant_meta(t)
        \/ \E fail \in BOOLEAN : ingest_csv_to_qdrant_upsert(t, fail)
        \/ ingest_csv_to_qdrant_count(t)
        \/ ingest_csv_to_qdrant_update(t)
        \/ \E name \in Names, dim \in Dimensions :
               create_index_exists(t, name, dim)
        \/ \E fail \in BOOLEAN : create_index_create(t, fail)
        \/ \E name \in Names, n \in 0..MaxRecords : start_ingest(t, name, n)
        \/ \E fail \in BOOLEAN : _create_actions_from_records(t, fail)
        \/ \E fail \in BOOLEAN : ingest_csv_to_index_bulk(t, fail)

Spec == Init /\ [][Next]_vars

\* ------------------------------------------------ keyed writes, one by one
\* The chunk ids the keyed writes below draw from.
ChunkIdPool == {11, 12}

\* The three stores a chunk is written to, each under its key, as one
\* record's share of a batch: the vector into the FAISS blob
\* (faiss_service.py lines 169-174 and 193-204), the point into the Qdrant
\* collection (qdrant_service.py lines 149-184) and the sidecar chunk
\* record (faiss_service.py lines 177-188, qdrant_service.py lines 164-178).
upsert_faiss_vector(name, chunk_id) ==
    /\ FaissMatches(name) # <<>>
    /\ LET x == FirstFaiss(name)
           index == add_with_ids(
                        _deserialize_faiss_index(faiss_indices[x].index_data),
                        <<_id_to_int(chunk_id)>>)
       IN  /\ ntotal(index) <= MaxVectors
           /\ faiss_indices' =
                 [faiss_indices EXCEPT ![x] =
                     [@ EXCEPT !.index_data = _serialize_faiss_index(index),
                               !.num_vectors = ntotal(index)]]
    /\ UNCHANGED <<settings, faiss_chunks, qdrantVars, opensearch, thread>>

upsert_qdrant_point(name, chunk_id, category) ==
    /\ qdrant[name].exists
    /\ qdrant' = [qdrant EXCEPT
                     ![name].points = @ \cup {chunk_id},
                     ![name].payload =
                         Payloads(@, <<chunk_id>>, <<[category |-> category]>>)]
    /\ UNCHANGED <<settings, faissVars, qdrant_collections, qdrant_chunks,
                   opensearch, thread>>

replace_faiss_chunk(name, chunk_id, category) ==
    /\ faiss_chunks' = replace_one(faiss_chunks,
                            [chunk_id |-> chunk_id,
                             faiss_int_id |-> _id_to_int(chunk_id),
                             index_name |-> name, category |-> category])
    /\ UNCHANGED <<settings, faiss_indices, qdrantVars, opensearch, thread>>

replace_qdrant_chunk(name, chunk_id, category) ==
    /\ qdrant_chunks' = replace_one(qdrant_chunks,
                             [chunk_id |-> chunk_id, collection_name |-> name,
                              category |-> category])
    /\ UNCHANGED <<settings, faissVars, qdrant_collections, qdrant,
                   opensearch, thread>>

\* The containers "kb" of FAISS and Qdrant exist and are empty.
InitUpsert ==
    /\ settings = [BATCH_SIZE |-> 1]
    /\ faiss_indices =
           <<[index_name |-> "kb", dimension |-> EmbeddingDimension,
              num_vectors |-> 0,
              index_data |->
                  _serialize_faiss_index(IndexIDMap(EmbeddingDimension))]>>
    /\ faiss_chunks = {}
    /\ qdrant_collections =
           <<[collection_name |-> "kb", dimension |-> EmbeddingDimension,
              num_vectors |-> 0]>>
    /\ qdrant_chunks = {}
    /\ qdrant = [name \in Names |->
                    [exists |-> TRUE, dimension |-> EmbeddingDimension,
                     points |-> {}, payload |-> <<>>]]
    /\ opensearch = [name \in Names |->
                        [exists |-> FALSE, dimension |-> 0, docs |-> {},
                         payload |-> <<>>]]
    /\ thread = [t \in Threads |-> Idle]

NextUpsert ==
    \E name \in Names, chunk_id \in ChunkIdPool, category \in Categories :
        \/ upsert_faiss_vector(name, chunk_id)
        \/ upsert_qdrant_point(name, chunk_id, category)
        \/ replace_faiss_chunk(name, chunk_id, category)
        \/ replace_qdrant_chunk(name, chunk_id, category)

SpecUpsert == InitUpsert /\ [][NextUpsert]_vars

\* ------------------------------------------- ingestion runs one at a time
\* The threads that have started a call.
Ran == {t \in Threads : thread[t].k > 0}

\* The caller starts an ingestion only after the one before has ended: no
\* other thread is inside a call.
OthersAtRest(t) ==
    \A u \in Threads \ {t} : thread[u].pc \in {"idle", "done"}

\* The container "kb" of every backend exists and is empty (the state
\* after create_faiss_index, create_qdrant_collection and create_index).
InitReingest ==
    /\ settings \in [BATCH_SIZE : 1..MaxBatchSize]
    /\ faiss_indices =
           <<[index_name |-> "kb", dimension |-> EmbeddingDimension,
              num_vectors |-> 0,
              index_data |->
                  _serialize_faiss_index(IndexIDMap(EmbeddingDimension))]>>
    /\ faiss_chunks = {}
    /\ qdrant_collections =
           <<[collection_name |-> "kb", dimension |-> EmbeddingDimension,
              num_vectors |-> 0]>>
    /\ qdrant_chunks = {}
    /\ qdrant = [name \in Names |->
                    [exists |-> TRUE, dimension |-> EmbeddingDimension,
                     points |-> {}, payload |-> <<>>]]
    /\ opensearch = [name \in Names |->
                        [exists |-> TRUE, dimension |-> EmbeddingDimension,
                         docs |-> {}, payload |-> <<>>]]
    /\ thread = [t \in Threads |-> Idle]

\* The run that starts ingests the source of the runs before it (n chunks)
\* through the same backend.
SameSource(op, n) ==
    /\ CallsStarted(Threads) < MaxRuns
    /\ \A u \in Ran : thread[u].op = op /\ Len(thread[u].records) = n

NextReingest ==
    \E t \in Threads :
        /\ OthersAtRest(t)
        /\ \/ \E name \in Names, n \in 0..MaxRecords :
                  /\ SameSource("ingest_csv_to_faiss", n)
                  /\ ingest_csv_to_faiss_find(t, name, n)
           \/ \E fail \in BOOLEAN : ingest_csv_to_faiss_embed(t, fail)
           \/ ingest_csv_to_faiss_meta(t)
           \/ ingest_csv_to_faiss_save(t)
           \/ Kill(t)
           \/ \E name \in Names, n \in 0..MaxRecords :
                  /\ SameSource("ingest_csv_to_qdrant", n)
                  /\ ingest_csv_to_qdrant_find(t, name, n)
           \/ \E fail \in BOOLEAN : ingest_csv_to_qdrant_embed(t, fail)
           \/ ingest_csv_to_qdrant_meta(t)
           \/ \E fail \in BOOLEAN : ingest_csv_to_qdrant_upsert(t, fail)
           \/ ingest_csv_to_qdrant_count(t)
           \/ ingest_csv_to_qdrant_update(t)
           \/ \E name \in Names, n \in 0..MaxRecords :
                  /\ SameSource("ingest_csv_to_index", n)
                  /\ start_ingest(t, name, n)
           \/ \E fail \in BOOLEAN : _create_actions_from_records(t, fail)
           \/ \E fail \in BOOLEAN : ingest_csv_to_index_bulk(t, fail)

SpecReingest == InitReingest /\ [][NextReingest]_vars

\* ------------------------------------------ runs on several containers
\* The containers of the runs that interleave.
FrameNames == {"kb", "docs"}

\* A stored container record as create_faiss_index and
\* create_qdrant_collection leave it.
EmptyFaissRecord(name) ==
    [index_name |-> name, dimension |-> EmbeddingDimension, num_vectors |-> 0,
     index_data |-> _serialize_faiss_index(IndexIDMap(EmbeddingDimension))]

EmptyQdrantRecord(name) ==
    [collection_name |-> name, dimension |-> EmbeddingDimension,
     num_vectors |-> 0]

\* The containers "kb" and "docs" of FAISS and Qdrant exist and are empty.
InitFrame ==
    /\ settings \in [BATCH_SIZE : 1..MaxBatchSize]
    /\ faiss_indices = <<EmptyFaissRecord("kb"), EmptyFaissRecord("docs")>>
    /\ faiss_chunks = {}
    /\ qdrant_collections =
           <<EmptyQdrantRecord("kb"), EmptyQdrantRecord("docs")>>
    /\ qdrant_chunks = {}
    /\ qdrant = [name \in FrameNames |->
                    [exists |-> TRUE, dimension |-> EmbeddingDimension,
                     points |-> {}, payload |-> <<>>]]
    /\ opensearch = [name \in FrameNames |->
                        [exists |-> FALSE, dimension |-> 0,
                         docs |-> {}, payload |-> <<>>]]
    /\ thread = [t \in Threads |-> Idle]

\* Ingestion runs on the two containers, in any interleaving.
NextFrame ==
    \E t \in Threads :
        \/ \E name \in FrameNames, n \in 0..MaxFrameRecords :
               /\ CallsStarted(Threads) < MaxRuns
               /\ ingest_csv_to_faiss_find(t, name, n)
        \/ \E fail \in BOOLEAN : ingest_csv_to_faiss_embed(t, fail)
        \/ ingest_csv_to_faiss_meta(t)
        \/ ingest_csv_to_faiss_save(t)
        \/ Kill(t)
        \/ \E name \in FrameNames, n \in 0..MaxFrameRecords :
               /\ CallsStarted(Threads) < MaxRuns
               /\ ingest_csv_to_qdrant_find(t, name, n)
        \/ \E fail \in BOOLEAN : ingest_csv_to_qdrant_embed(t, fail)
        \/ ingest_csv_to_qdrant_meta(t)
        \/ \E fail \in BOOLEAN : ingest_csv_to_qdrant_upsert(t, fail)
        \/ ingest_csv_to_qdrant_count(t)
        \/ ingest_csv_to_qdrant_update(t)

SpecFrame == InitFrame /\ [][NextFrame]_vars

\* ------------------------------------------------- utils/text_splitter.py
\* A string is the sequence of its sentences, a sentence the sequence of
\* its words (numbers); a sentence without words is a run of whitespace.
\* "" is <<>>, "   " is <<<<>>>>.
strip(text) == SelectSeq(text, LAMBDA sent : sent # <<>>)

\* re.split(r'(?<=[.!?])\s+', s): the sentences of s; the split of the
\* empty string is the list of one empty string.
re_split(s) == IF s = <<>> THEN <<<<>>>> ELSE s

\* A Python value passed as `text`: its type, whether it counts as true,
\* and its content when it is a string.
Str(s) == [type |-> "str", truthy |-> s # <<>>, str |-> s]
None == [type |-> "NoneType", truthy |-> FALSE, str |-> <<>>]
Number(nonzero) == [type |-> "int", truthy |-> nonzero, str |-> <<>>]

\* ' '.join(pieces).split(): the words of the pieces in order.
RECURSIVE Words(_)
Words(sents) == IF sents = <<>> THEN <<>> ELSE Head(sents) \o Words(Tail(sents))

\* words[:overlap] in the place of words[-overlap:].
LastWords_first(words, overlap) ==
    SubSeq(words, 1, IF Len(words) > overlap THEN overlap ELSE Len(words))

\* words[-overlap:] for overlap > 0: the last `overlap` words, all of them
\* when there are fewer.
LastWords(words, overlap) ==
    SubSeq(words, IF Len(words) > overlap THEN Len(words) - overlap + 1 ELSE 1,
           Len(words))

\* The loop of simple_sentence_split closing a chunk without taking the
\* overflowing sentence into the next one.
RECURSIVE SplitLoop_dropping(_, _, _, _, _)
SplitLoop_dropping(sentences, chunks, current, max_words, overlap) ==
    IF sentences = <<>>
    THEN IF current # <<>> THEN Append(chunks, Words(current)) ELSE chunks
    ELSE LET words == Head(sentences)
         IN  IF Len(Words(current)) + Len(words) <= max_words \/ current = <<>>
             THEN SplitLoop_dropping(Tail(sentences), chunks,
                                     Append(current, words), max_words, overlap)
             ELSE SplitLoop_dropping(Tail(sentences),
                                     Append(chunks, Words(current)), <<>>,
                                     max_words, overlap)

\* The loop of simple_sentence_split without the test of the word limit.
RECURSIVE SplitLoop_unbounded(_, _, _, _, _)
SplitLoop_unbounded(sentences, chunks, current, max_words, overlap) ==
    IF sentences = <<>>
    THEN IF current # <<>> THEN Append(chunks, Words(current)) ELSE chunks
    ELSE SplitLoop_unbounded(Tail(sentences), chunks,
                             Append(current, Head(sentences)), max_words,
                             overlap)

\* simple_sentence_split, lines 13-33: the loop over the sentences.
\* `current` is the list of the pieces of the running chunk (the overlap
\* words carried over, then sentences), current_len the number of their
\* words; a chunk is the sequence of the words of its pieces.
RECURSIVE SplitLoop(_, _, _, _, _)
SplitLoop(sentences, chunks, current, max_words, overlap) ==
    IF sentences = <<>>
    THEN IF current # <<>> THEN Append(chunks, Words(current)) ELSE chunks
    ELSE LET words == Head(sentences)
         IN  IF Len(Words(current)) + Len(words) <= max_words \/ current = <<>>
             THEN SplitLoop(Tail(sentences), chunks, Append(current, words),
                            max_words, overlap)
             ELSE SplitLoop(Tail(sentences), Append(chunks, Words(current)),
                            IF overlap > 0
                            THEN <<LastWords(Words(current), overlap), words>>
                            ELSE <<words>>,
                            max_words, overlap)

\* simple_sentence_split(text, max_words, overlap), lines 10-12 and 33.
simple_sentence_split(text, max_words, overlap) ==
    IF ~text.truthy \/ text.type # "str" THEN <<>>
    ELSE SplitLoop(re_split(strip(text.str)), <<>>, <<>>, max_words, overlap)

\* ----------------------------------------------- calls of the chunker
\* The sum of the first x entries of a sequence of numbers.
RECURSIVE SumTo(_, _)
SumTo(lens, x) == IF x = 0 THEN 0 ELSE lens[x] + SumTo(lens, x - 1)

\* The text whose sentences have the lengths `lens`; its words are all
\* different (word j of the text is j).
TextOf(lens) ==
    [x \in DOMAIN lens |-> [y \in 1..lens[x] |-> SumTo(lens, x - 1) + y]]

\* The values passed as `text`: None, the numbers 0 and 123, "", "   " and
\* every text of up to MaxSentences sentences of up to MaxSentenceWords
\* words.
SplitInputs ==
    {None, Number(FALSE), Number(TRUE), Str(<<<<>>>>)}
    \cup {Str(TextOf(lens)) :
             lens \in UNION {[1..n -> 1..MaxSentenceWords] :
                                n \in 0..MaxSentences}}

\* The locals of a caller of the chunker: the arguments and the chunks
\* returned.
NoSplit ==
    [op |-> "none", pc |-> "idle", text |-> None, max_words |-> 0,
     overlap |-> 0, chunks |-> <<>>, result |-> "none"]

\* A call simple_sentence_split(text, max_words, overlap) and its return.
call_simple_sentence_split(t) ==
    /\ \A u \in Threads : thread[u].pc = "idle"
    /\ \E text \in SplitInputs, max_words \in 1..MaxWords,
          overlap \in 0..MaxOverlap :
           Set(t, [NoSplit EXCEPT
                  !.op = "simple_sentence_split", !.pc = "done",
                  !.text = text, !.max_words = max_words,
                  !.overlap = overlap,
                  !.chunks = simple_sentence_split(text, max_words, overlap),
                  !.result = "ok"])
    /\ UNCHANGED <<settings, stores>>

InitSplit ==
    /\ settings = [BATCH_SIZE |-> 1]
    /\ faiss_indices = <<>>
    /\ faiss_chunks = {}
    /\ qdrant_collections = <<>>
    /\ qdrant_chunks = {}
    /\ qdrant = [name \in Names |->
                    [exists |-> FALSE, dimension |-> 0, points |-> {},
                     payload |-> <<>>]]
    /\ opensearch = [name \in Names |->
                        [exists |-> FALSE, dimension |-> 0, docs |-> {},
                         payload |-> <<>>]]
    /\ thread = [t \in Threads |-> NoSplit]

NextSplit == \E t \in Threads : call_simple_sentence_split(t)

SpecSplit == InitSplit /\ [][NextSplit]_vars

\* ------------------------------------- the row loop of the ingestions
\* The word "nan" in any letter case.
NanWord == 0

\* What row.get(text_col, "") can be: a missing cell (NaN; str(NaN) is
\* "nan"), the empty string (no such column), whitespace, the text "NaN" in
\* a spelling read_csv keeps as text, the number 0 of a numeric column, or
\* a text of one to three sentences.
TextValues ==
    { [isna |-> TRUE, falsy |-> FALSE, str |-> <<<<NanWord>>>>],
      [isna |-> FALSE, falsy |-> TRUE, str |-> <<>>],
      [isna |-> FALSE, falsy |-> FALSE, str |-> <<<<>>>>],
      [isna |-> FALSE, falsy |-> FALSE, str |-> <<<<NanWord>>>>],
      [isna |-> FALSE, falsy |-> TRUE, str |-> <<<<10>>>>],
      [isna |-> FALSE, falsy |-> FALSE, str |-> <<<<1>>>>],
      [isna |-> FALSE, falsy |-> FALSE, str |-> <<<<1, 2>>, <<3>>>>],
      [isna |-> FALSE, falsy |-> FALSE, str |-> <<<<1>>, <<2, 3>>, <<4>>>>] }

\* str(text_value or "")
StrOrEmpty(text_value) == IF text_value.falsy THEN <<>> ELSE text_value.str

\* The locals of the row loop: the rows read, the number of rows gone
\* through, the calls of the chunker (text passed, chunks returned) and
\* the chunk texts appended to records.
NoRows ==
    [op |-> "none", pc |-> "idle", rows |-> <<>>, row |-> 0,
     chunker |-> <<>>, records |-> <<>>, result |-> "none"]

\* ingest_csv_to_index line 48 (ingest_csv_to_faiss line 124,
\* ingest_csv_to_qdrant line 107): df = pd.read_csv(csv_path).
read_csv(t) ==
    /\ \A u \in Threads : thread[u].pc = "idle"
    /\ \E n \in 0..MaxRows :
       \E rows \in [1..n -> TextValues] :
           Set(t, [NoRows EXCEPT
                  !.op = "ingest_csv_to_index", !.rows = rows,
                  !.pc = IF rows = <<>> THEN "done" ELSE "iterrows",
                  !.result = IF rows = <<>> THEN "ok" ELSE "none"])
    /\ UNCHANGED <<settings, stores>>

\* The row loop without the test for whitespace-only text.
iterrows_unstripped(t) ==
    /\ thread[t].pc = "iterrows"
    /\ LET r == thread[t]
           text_value == r.rows[r.row + 1]
           text == StrOrEmpty(text_value)
           skip == \/ text_value.isna
                   \/ text = <<>>
                   \/ text = <<<<NanWord>>>>
           chunks == simple_sentence_split(Str(text),
                                           settings.CHUNK_MAX_WORDS,
                                           settings.CHUNK_OVERLAP)
           r1 == [r EXCEPT !.row = r.row + 1,
                           !.pc = IF r.row + 1 < Len(r.rows)
                                  THEN "iterrows" ELSE "done",
                           !.result = IF r.row + 1 < Len(r.rows)
                                      THEN "none" ELSE "ok"]
       IN  IF skip
           THEN Set(t, r1)
           ELSE Set(t, [r1 EXCEPT
                    !.chunker = Append(@, [text |-> text, chunks |-> chunks]),
                    !.records = @ \o chunks])
    /\ UNCHANGED <<settings, stores>>

\* ingest_csv_to_index lines 50-63 (ingest_csv_to_faiss lines 127-151,
\* ingest_csv_to_qdrant lines 110-134): one turn of the loop over the
\* rows: skip the row when its text is NaN, empty, whitespace or "nan",
\* otherwise split it and append its chunks to records.
iterrows(t) ==
    /\ thread[t].pc = "iterrows"
    /\ LET r == thread[t]
           text_value == r.rows[r.row + 1]
           text == StrOrEmpty(text_value)
           skip == \/ text_value.isna
                   \/ text = <<>>
                   \/ Len(strip(text)) = 0
                   \/ text = <<<<NanWord>>>>
           chunks == simple_sentence_split(Str(text),
                                           settings.CHUNK_MAX_WORDS,
                                           settings.CHUNK_OVERLAP)
           r1 == [r EXCEPT !.row = r.row + 1,
                           !.pc = IF r.row + 1 < Len(r.rows)
                                  THEN "iterrows" ELSE "done",
                           !.result = IF r.row + 1 < Len(r.rows)
                                      THEN "none" ELSE "ok"]
       IN  IF skip
           THEN Set(t, r1)
           ELSE Set(t, [r1 EXCEPT
                    !.chunker = Append(@, [text |-> text, chunks |-> chunks]),
                    !.records = @ \o chunks])
    /\ UNCHANGED <<settings, stores>>

InitRows ==
    /\ settings \in [BATCH_SIZE : {1}, CHUNK_MAX_WORDS : 1..MaxWords,
                      CHUNK_OVERLAP : 0..MaxOverlap]
    /\ faiss_indices = <<>>
    /\ faiss_chunks = {}
    /\ qdrant_collections = <<>>
    /\ qdrant_chunks = {}
    /\ qdrant = [name \in Names |->
                    [exists |-> FALSE, dimension |-> 0, points |-> {},
                     payload |-> <<>>]]
    /\ opensearch = [name \in Names |->
                        [exists |-> FALSE, dimension |-> 0, docs |-> {},
                         payload |-> <<>>]]
    /\ thread = [t \in Threads |-> NoRows]

NextRows ==
    \E t \in Threads :
        \/ read_csv(t)
        \/ iterrows(t)

SpecRows == InitRows /\ [][NextRows]_vars

\* ------------------------------------------------------------- queries
\* The locals of a query: the raw backend search calls made (the number of
\* candidates each asked for), the ranked raw hits, the position x of the
\* loop over them, the contexts built so far, the calls of
\* OllamaGenerator.generate (contexts passed, answer returned) and the
\* answer of the result.
NoQuery ==
    [op |-> "none", pc |-> "idle", name |-> "", query |-> "", top_k |-> 0,
     filter_category |-> "", index |-> NoIndex, searched |-> <<>>,
     raw |-> <<>>, x |-> 0, hits |-> <<>>, generate |-> <<>>,
     answer |-> "", result |-> "none"]

Queries == {"what is ml"}

\* category: str = Field(default=None): no filter is the empty value.
Filters == {""} \cup Categories

NoRelevantDocuments == "No relevant documents found."

\* What requests.post to the generation endpoint comes to: the call raises
\* (connection refused, timeout), the response has an HTTP error status,
\* its body is no JSON, its JSON has no "response" field, or it has one.
PostOutcomes ==
    {"ConnectionError", "HTTPError", "JSONDecodeError", "no response field",
     "response"}

\* The try block of OllamaGenerator.generate, lines 33-40: post, then
\* raise_for_status, then json(), then data.get("response", ""); any
\* exception of the three becomes the text "Generation error: ...".
GenerationAnswer(outcome) ==
    IF outcome = "ConnectionError" THEN "Generation error"
    ELSE IF outcome = "HTTPError" THEN "Generation error"
    ELSE IF outcome = "JSONDecodeError" THEN "Generation error"
    ELSE IF outcome = "no response field" THEN ""
    ELSE "response"

\* The answers OllamaGenerator.generate returns: the model's response, the
\* empty string, or the error text it returns instead of raising.
Answers == {GenerationAnswer(outcome) : outcome \in PostOutcomes}

\* One query per behaviour: a query starts when no thread has run one.
CanQuery(t) == \A u \in Threads : thread[u].pc = "idle"

StartQuery(op, name, query, top_k, filter_category) ==
    [NoQuery EXCEPT !.op = op, !.name = name, !.query = query,
                    !.top_k = top_k, !.filter_category = filter_category]

\* The elements of a set of numbers in increasing order.
RECURSIVE SortedSeq(_)
SortedSeq(S) ==
    IF S = {} THEN <<>>
    ELSE LET least == CHOOSE a \in S : \A b \in S : a <= b
         IN  <<least>> \o SortedSeq(S \ {least})

\* The orders in which a similarity search can rank n stored vectors: the
\* ranking depends on the vectors and the query, so any order for a small
\* container, stored order or its reverse for the large one.
Orders(n) ==
    IF n <= MaxStored THEN Permutations(1..n)
    ELSE {[x \in 1..n |-> x], [x \in 1..n |-> n + 1 - x]}

Rankings(ids) == {[x \in DOMAIN ids |-> ids[p[x]]] : p \in Orders(Len(ids))}

\* The k best of a ranking (all of it when it is shorter).
TopRaw(ranking, k) == SubSeq(ranking, 1, Min(k, Len(ranking)))

\* The context built from a metadata record or payload.
Context(chunk_id, category) == [chunk_id |-> chunk_id, category |-> category]

\* find_one found no chunk record.
NoChunk == [chunk_id |-> 0, category |-> ""]

\* The result of a query: `if not hits` returns the fixed answer.
NoHits(r) ==
    [r EXCEPT !.pc = "done", !.result = "ok", !.answer = NoRelevantDocuments]

\* search_faiss_index, lines 229-235: read the index record.
search_faiss_index_find(t, name, query, top_k, filter_category) ==
    /\ CanQuery(t)
    /\ LET r == StartQuery("search_faiss_index", name, query, top_k,
                           filter_category)
           found == FaissMatches(name)
       IN  IF found = <<>>
           THEN Set(t, Return(r, "ValueError: not found"))
           ELSE Set(t, [r EXCEPT
                    !.index = _deserialize_faiss_index(Head(found).index_data),
                    !.pc = "embed"])
    /\ UNCHANGED <<settings, stores>>

\* search_faiss_index asking the index for top_k candidates whether or not
\* a category filter is given.
search_faiss_index_search_exact(t, fail) ==
    /\ At(t, "search_faiss_index", "embed")
    /\ \E ranking \in Rankings(thread[t].index.ids) :
       LET r == thread[t]
           search_k == r.top_k
           k == Min(search_k, ntotal(r.index))
           r1 == [r EXCEPT !.searched = Append(@, k),
                           !.raw = TopRaw(ranking, k)]
       IN  IF fail
           THEN Set(t, Return(r, "embed error"))
           ELSE IF r1.raw = <<>>
           THEN Set(t, NoHits(r1))
           ELSE Set(t, [r1 EXCEPT !.pc = "find_one"])
    /\ UNCHANGED <<settings, stores>>

\* search_faiss_index, lines 241-252: embed the query (the call raises on
\* a transport error), then search the in-memory index for
\* min(search_k, ntotal) candidates.  With an empty index that is a search
\* for 0 candidates, which returns nothing or raises, as the library
\* version has it; both outcomes are here (no hits, or `fail`).
search_faiss_index_search(t, fail) ==
    /\ At(t, "search_faiss_index", "embed")
    /\ \E ranking \in Rankings(thread[t].index.ids) :
       LET r == thread[t]
           search_k == IF r.filter_category # ""
                       THEN r.top_k * 10 ELSE r.top_k
           k == Min(search_k, ntotal(r.index))
           r1 == [r EXCEPT !.searched = Append(@, k),
                           !.raw = TopRaw(ranking, k)]
       IN  IF fail
           THEN Set(t, Return(r, "embed error"))
           ELSE IF r1.raw = <<>>
           THEN Set(t, NoHits(r1))
           ELSE Set(t, [r1 EXCEPT !.pc = "find_one"])
    /\ UNCHANGED <<settings, stores>>

\* search_faiss_index ending its loop after top_k raw hits, whether or not
\* they had metadata.
search_faiss_index_lookup_counted(t) ==
    /\ At(t, "search_faiss_index", "find_one")
    /\ LET r == thread[t]
           faiss_int_id == r.raw[r.x + 1]
           docs == {d \in faiss_chunks : /\ d.index_name = r.name
                                         /\ d.faiss_int_id = faiss_int_id}
           skip == faiss_int_id = -1 \/ docs = {}
       IN  \E chunk_doc \in IF skip THEN {NoChunk} ELSE docs :
               LET hits == IF skip THEN r.hits
                           ELSE Append(r.hits, Context(chunk_doc.chunk_id,
                                                       chunk_doc.category))
                   r1 == [r EXCEPT !.hits = hits, !.x = r.x + 1]
               IN  IF r.x + 1 >= r.top_k \/ r.x + 1 = Len(r.raw)
                   THEN IF hits = <<>>
                        THEN Set(t, NoHits(r1))
                        ELSE Set(t, [r1 EXCEPT !.pc = "generate"])
                   ELSE Set(t, r1)
    /\ UNCHANGED <<settings, stores>>

\* search_faiss_index, lines 254-294: one turn of the loop over the raw
\* hits: skip the -1 placeholder, look the metadata record up by
\* (index_name, faiss_int_id), skip the hit when there is none, otherwise
\* append its context (the category filter of lines 269-271 is commented
\* out) and stop at top_k contexts; after the loop, no contexts is the
\* fixed answer.
search_faiss_index_lookup(t) ==
    /\ At(t, "search_faiss_index", "find_one")
    /\ LET r == thread[t]
           faiss_int_id == r.raw[r.x + 1]
           docs == {d \in faiss_chunks : /\ d.index_name = r.name
                                         /\ d.faiss_int_id = faiss_int_id}
           skip == faiss_int_id = -1 \/ docs = {}
       IN  \E chunk_doc \in IF skip THEN {NoChunk} ELSE docs :
               LET hits == IF skip THEN r.hits
                           ELSE Append(r.hits, Context(chunk_doc.chunk_id,
                                                       chunk_doc.category))
                   r1 == [r EXCEPT !.hits = hits, !.x = r.x + 1]
               IN  IF Len(hits) >= r.top_k \/ r.x + 1 = Len(r.raw)
                   THEN IF hits = <<>>
                        THEN Set(t, NoHits(r1))
                        ELSE Set(t, [r1 EXCEPT !.pc = "generate"])
                   ELSE Set(t, r1)
    /\ UNCHANGED <<settings, stores>>

\* search_qdrant_collection, lines 224-229: read the collection record.
search_qdrant_collection_find(t, name, query, top_k, filter_category) ==
    /\ CanQuery(t)
    /\ LET r == StartQuery("search_qdrant_collection", name, query, top_k,
                           filter_category)
       IN  IF QdrantMatches(name) = <<>>
           THEN Set(t, Return(r, "ValueError: not found"))
           ELSE Set(t, [r EXCEPT !.pc = "embed"])
    /\ UNCHANGED <<settings, stores>>

\* search_qdrant_collection, lines 231-233: embed the query.
search_qdrant_collection_embed(t, fail) ==
    /\ At(t, "search_qdrant_collection", "embed")
    /\ IF fail
       THEN Set(t, Return(thread[t], "embed error"))
       ELSE Set(t, [thread[t] EXCEPT !.pc = "search"])
    /\ UNCHANGED <<settings, stores>>

\* search_qdrant_collection, lines 243-264: the loop over the results:
\* skip a result of another category when a filter is given, append the
\* context, stop at top_k contexts.
RECURSIVE QdrantHits(_, _, _, _, _)
QdrantHits(search_results, payload, filter_category, top_k, hits) ==
    IF search_results = <<>> THEN hits
    ELSE LET chunk_id == Head(search_results)
         IN  IF filter_category # "" /\ payload[chunk_id] # filter_category
             THEN QdrantHits(Tail(search_results), payload, filter_category,
                             top_k, hits)
             ELSE LET more == Append(hits, Context(chunk_id, payload[chunk_id]))
                  IN  IF Len(more) >= top_k THEN more
                      ELSE QdrantHits(Tail(search_results), payload,
                                      filter_category, top_k, more)

\* search_qdrant_collection calling the generator whether or not it has
\* contexts.
search_qdrant_collection_search_always(t) ==
    /\ At(t, "search_qdrant_collection", "search")
    /\ \E ranking \in Rankings(SortedSeq(qdrant[thread[t].name].points)) :
       LET r == thread[t]
           limit == IF r.filter_category # "" THEN r.top_k * 2 ELSE r.top_k
           search_results == TopRaw(ranking, limit)
           hits == QdrantHits(search_results, qdrant[r.name].payload,
                              r.filter_category, r.top_k, <<>>)
           r1 == [r EXCEPT !.searched = Append(@, limit),
                           !.raw = search_results, !.hits = hits]
       IN  IF ~qdrant[r.name].exists
           THEN Set(t, Return(r, "search error"))
           ELSE Set(t, [r1 EXCEPT !.pc = "generate"])
    /\ UNCHANGED <<settings, stores>>

\* search_qdrant_collection, lines 235-275: search the collection for
\* `limit` candidates, filter them, and return the fixed answer when no
\* context is left.
search_qdrant_collection_search(t) ==
    /\ At(t, "search_qdrant_collection", "search")
    /\ \E ranking \in Rankings(SortedSeq(qdrant[thread[t].name].points)) :
       LET r == thread[t]
           limit == IF r.filter_category # "" THEN r.top_k * 2 ELSE r.top_k
           search_results == TopRaw(ranking, limit)
           hits == QdrantHits(search_results, qdrant[r.name].payload,
                              r.filter_category, r.top_k, <<>>)
           r1 == [r EXCEPT !.searched = Append(@, limit),
                           !.raw = search_results, !.hits = hits]
       IN  IF ~qdrant[r.name].exists
           THEN Set(t, Return(r, "search error"))
           ELSE IF hits = <<>>
           THEN Set(t, NoHits(r1))
           ELSE Set(t, [r1 EXCEPT !.pc = "generate"])
    /\ UNCHANGED <<settings, stores>>

\* query_endpoint (api/search.py lines 17-22): refuse a missing index,
\* otherwise call rag_answer.
query_endpoint(t, name, query, top_k, filter_category) ==
    /\ CanQuery(t)
    /\ LET r == StartQuery("rag_answer", name, query, top_k, filter_category)
       IN  IF ~opensearch[name].exists
           THEN Set(t, Return(r, "HTTP 400: not found"))
           ELSE Set(t, [r EXCEPT !.pc = "embed"])
    /\ UNCHANGED <<settings, stores>>

\* search_opensearch, lines 10-11: embed the query.
search_opensearch_embed(t, fail) ==
    /\ At(t, "rag_answer", "embed")
    /\ IF fail
       THEN Set(t, Return(thread[t], "embed error"))
       ELSE Set(t, [thread[t] EXCEPT !.pc = "search"])
    /\ UNCHANGED <<settings, stores>>

\* rag_answer returning the fixed answer when the search has no hits.
search_opensearch_shortcut(t) ==
    /\ At(t, "rag_answer", "search")
    /\ \E ranking \in Rankings(SortedSeq(opensearch[thread[t].name].docs)) :
       LET r == thread[t]
           payload == opensearch[r.name].payload
           nearest == TopRaw(ranking, r.top_k)
           res == IF r.filter_category # ""
                  THEN SelectSeq(nearest,
                           LAMBDA id : payload[id] = r.filter_category)
                  ELSE nearest
           hits == [x \in DOMAIN res |-> Context(res[x], payload[res[x]])]
           r1 == [r EXCEPT !.searched = Append(@, r.top_k),
                           !.raw = res, !.hits = hits]
       IN  IF hits = <<>>
           THEN Set(t, NoHits(r1))
           ELSE Set(t, [r1 EXCEPT !.pc = "generate"])
    /\ UNCHANGED <<settings, stores>>

\* search_opensearch, lines 13-49, and rag_answer, lines 52-53: the k-NN
\* query for the top_k nearest documents with size top_k; with a category
\* the service keeps the nearest documents of that category (a term
\* filter in the query).  Every hit of the response becomes a context and
\* rag_answer goes on to the generator.
search_opensearch(t) ==
    /\ At(t, "rag_answer", "search")
    /\ \E ranking \in Rankings(SortedSeq(opensearch[thread[t].name].docs)) :
       LET r == thread[t]
           payload == opensearch[r.name].payload
           nearest == TopRaw(ranking, r.top_k)
           res == IF r.filter_category # ""
                  THEN SelectSeq(nearest,
                           LAMBDA id : payload[id] = r.filter_category)
                  ELSE nearest
           hits == [x \in DOMAIN res |-> Context(res[x], payload[res[x]])]
           r1 == [r EXCEPT !.searched = Append(@, r.top_k),
                           !.raw = res, !.hits = hits]
       IN  Set(t, [r1 EXCEPT !.pc = "generate"])
    /\ UNCHANGED <<settings, stores>>

\* OllamaGenerator.generate letting the exception of a failed call leave
\* the function.
generate_raising(t, outcome) ==
    /\ thread[t].pc = "generate"
    /\ LET r == thread[t]
           answer == GenerationAnswer(outcome)
           call == [query |-> r.query, contexts |-> r.hits,
                    post |-> <<outcome>>, answer |-> answer]
           r1 == [r EXCEPT !.generate = Append(@, call)]
       IN  IF answer = "Generation error"
           THEN Set(t, Return(r1, outcome))
           ELSE Set(t, [r1 EXCEPT !.answer = answer, !.pc = "done",
                                  !.result = "ok"])
    /\ UNCHANGED <<settings, stores>>

\* OllamaGenerator.generate(query, hits) at the end of a query (lines
\* 12-40): the prompt is built from the hits, each with the text_snippet
\* its record holds, the endpoint is called once, and the result of the
\* query is built from the answer returned.
generate(t, outcome) ==
    /\ thread[t].pc = "generate"
    /\ LET r == thread[t]
           answer == GenerationAnswer(outcome)
           call == [query |-> r.query, contexts |-> r.hits,
                    post |-> <<outcome>>, answer |-> answer]
       IN  Set(t, [r EXCEPT !.generate = Append(@, call), !.answer = answer,
                            !.pc = "done", !.result = "ok"])
    /\ UNCHANGED <<settings, stores>>

\* The chunk id of the m-th chunk of a stored container.
StoredChunk(m) == uuid4(1, 1, m)

\* The state a query finds: the container "kb" of every backend holds the
\* same n chunks with any categories, or does not exist.  The FAISS chunk
\* records are kept in a collection of the shared database apart from the
\* blob, and the records of any of the blob's keys may be absent from it.
InitSearch ==
    /\ settings = [BATCH_SIZE |-> 1]
    /\ thread = [t \in Threads |-> NoQuery]
    /\ \E n \in (0..MaxStored) \cup {LargeStored}, created \in BOOLEAN :
       \E category \in IF n <= MaxStored THEN [1..n -> Categories]
                       ELSE {[m \in 1..n |-> CategoryOf(m)]} :
       \E joined \in IF n <= MaxStored THEN SUBSET (1..n) ELSE {1..n} :
           LET records == [m \in 1..n |->
                              [chunk_id |-> StoredChunk(m), text |-> m,
                               category |-> category[m]]]
               index == add_with_ids(IndexIDMap(EmbeddingDimension),
                                     IntIds(records))
           IN  /\ created \/ n = 0
               /\ faiss_indices =
                      IF created
                      THEN <<[index_name |-> "kb",
                              dimension |-> EmbeddingDimension,
                              num_vectors |-> ntotal(index),
                              index_data |-> _serialize_faiss_index(index)]>>
                      ELSE <<>>
               /\ faiss_chunks =
                      {[chunk_id |-> records[m].chunk_id,
                        faiss_int_id |-> _id_to_int(records[m].chunk_id),
                        index_name |-> "kb",
                        category |-> records[m].category] : m \in joined}
               /\ qdrant_collections =
                      IF created
                      THEN <<[collection_name |-> "kb",
                              dimension |-> EmbeddingDimension,
                              num_vectors |-> n]>>
                      ELSE <<>>
               /\ qdrant_chunks =
                      {[chunk_id |-> records[m].chunk_id,
                        collection_name |-> "kb",
                        category |-> records[m].category] : m \in 1..n}
               /\ qdrant = [name \in Names |->
                      [exists |-> created,
                       dimension |-> IF created THEN EmbeddingDimension ELSE 0,
                       points |-> Range(ChunkIds(records)),
                       payload |-> Payloads(<<>>, ChunkIds(records), records)]]
               /\ opensearch = [name \in Names |->
                      [exists |-> created,
                       dimension |-> IF created THEN EmbeddingDimension ELSE 0,
                       docs |-> Range(ChunkIds(records)),
                       payload |-> Payloads(<<>>, ChunkIds(records), records)]]

NextSearch ==
    \E t \in Threads :
        \/ \E name \in Names, query \in Queries, top_k \in 1..MaxTopK,
              filter_category \in Filters :
               \/ search_faiss_index_find(t, name, query, top_k,
                                          filter_category)
               \/ search_qdrant_collection_find(t, name, query, top_k,
                                                filter_category)
               \/ query_endpoint(t, name, query, top_k, filter_category)
        \/ \E fail \in BOOLEAN : search_faiss_index_search(t, fail)
        \/ search_faiss_index_lookup(t)
        \/ \E fail \in BOOLEAN : search_qdrant_collection_embed(t, fail)
        \/ search_qdrant_collection_search(t)
        \/ \E fail \in BOOLEAN : search_opensearch_embed(t, fail)
        \/ search_opensearch(t)
        \/ \E outcome \in PostOutcomes : generate(t, outcome)

SpecSearch == InitSearch /\ [][NextSearch]_vars

\* ------------------------------------------ requests at the endpoints
\* The container names a request can carry: "kb" exists, "lost" does not.
RequestNames == {"kb", "lost"}

\* One request per behaviour: it arrives when no thread has served one.
FirstRequest == \A u \in Threads : thread[u].pc = "idle"

\* ingest_endpoint of api/faiss.py (lines 61-85): the CSV check, then the
\* check of the index record, then the background task; no other request
\* runs between the check and the task, so the task ingest_csv_to_faiss
\* starts in the same step.
faiss_ingest_endpoint(t, name, readable, n) ==
    LET r1 == Logged(Begin(t, "faiss.ingest_endpoint", name, 0),
                     Ev("read_csv", -1, <<>>))
        r2 == Logged(r1, Ev("find_one", -1, <<>>))
    IN  IF ~readable
        THEN /\ CanStart(t)
             /\ Set(t, Return(r1, "HTTP 400: cannot read CSV"))
             /\ UNCHANGED <<settings, stores>>
        ELSE IF FaissMatches(name) = <<>>
        THEN /\ CanStart(t)
             /\ Set(t, Return(r2, "HTTP 400: does not exist"))
             /\ UNCHANGED <<settings, stores>>
        ELSE ingest_csv_to_faiss_find(t, name, n)

\* ingest_endpoint of api/qdrant.py (lines 58-88), likewise.
qdrant_ingest_endpoint(t, name, readable, n) ==
    LET r1 == Logged(Begin(t, "qdrant.ingest_endpoint", name, 0),
                     Ev("read_csv", -1, <<>>))
        r2 == Logged(r1, Ev("find_one", -1, <<>>))
    IN  IF ~readable
        THEN /\ CanStart(t)
             /\ Set(t, Return(r1, "HTTP 400: cannot read CSV"))
             /\ UNCHANGED <<settings, stores>>
        ELSE IF QdrantMatches(name) = <<>>
        THEN /\ CanStart(t)
             /\ Set(t, Return(r2, "HTTP 400: does not exist"))
             /\ UNCHANGED <<settings, stores>>
        ELSE ingest_csv_to_qdrant_find(t, name, n)

\* search_endpoint of api/faiss.py (lines 88-110): the check of the index
\* record, then search_faiss_index.
faiss_search_endpoint(t, name, query, top_k, filter_category) ==
    IF FaissMatches(name) = <<>>
    THEN /\ CanQuery(t)
         /\ Set(t, Return(StartQuery("faiss.search_endpoint", name, query,
                                     top_k, filter_category),
                          "HTTP 400: not found"))
         /\ UNCHANGED <<settings, stores>>
    ELSE search_faiss_index_find(t, name, query, top_k, filter_category)

\* search_endpoint of api/qdrant.py (lines 92-117), likewise.
qdrant_search_endpoint(t, name, query, top_k, filter_category) ==
    IF QdrantMatches(name) = <<>>
    THEN /\ CanQuery(t)
         /\ Set(t, Return(StartQuery("qdrant.search_endpoint", name, query,
                                     top_k, filter_category),
                          "HTTP 400: not found"))
         /\ UNCHANGED <<settings, stores>>
    ELSE search_qdrant_collection_find(t, name, query, top_k,
                                       filter_category)

\* The container "kb" of every backend holds the same n chunks; no backend
\* has a container "lost".
InitRequests ==
    /\ settings \in [BATCH_SIZE : 1..MaxBatchSize]
    /\ thread = [t \in Threads |-> Idle]
    /\ \E n \in 0..MaxStored :
           LET records == [m \in 1..n |->
                              [chunk_id |-> StoredChunk(m), text |-> m,
                               category |-> CategoryOf(m)]]
               index == add_with_ids(IndexIDMap(EmbeddingDimension),
                                     IntIds(records))
               held(name) == IF name = "kb" THEN Range(ChunkIds(records))
                             ELSE {}
               payload(name) ==
                   IF name = "kb"
                   THEN Payloads(<<>>, ChunkIds(records), records)
                   ELSE <<>>
           IN  /\ faiss_indices =
                      <<[index_name |-> "kb",
                         dimension |-> EmbeddingDimension,
                         num_vectors |-> ntotal(index),
                         index_data |-> _serialize_faiss_index(index)]>>
               /\ faiss_chunks =
                      {[chunk_id |-> records[m].chunk_id,
                        faiss_int_id |-> _id_to_int(records[m].chunk_id),
                        index_name |-> "kb",
                        category |-> records[m].category] : m \in 1..n}
               /\ qdrant_collections =
                      <<[collection_name |-> "kb",
                         dimension |-> EmbeddingDimension,
                         num_vectors |-> n]>>
               /\ qdrant_chunks =
                      {[chunk_id |-> records[m].chunk_id,
                        collection_name |-> "kb",
                        category |-> records[m].category] : m \in 1..n}
               /\ qdrant = [name \in RequestNames |->
                      [exists |-> name = "kb",
                       dimension |-> IF name = "kb" THEN EmbeddingDimension
                                     ELSE 0,
                       points |-> held(name), payload |-> payload(name)]]
               /\ opensearch = [name \in RequestNames |->
                      [exists |-> name = "kb",
                       dimension |-> IF name = "kb" THEN EmbeddingDimension
                                     ELSE 0,
                       docs |-> held(name), payload |-> payload(name)]]

NextRequests ==
    \E t \in Threads :
        \/ /\ FirstRequest
           /\ \E name \in RequestNames, n \in 0..MaxRecords :
                  \/ \E readable \in BOOLEAN :
                         faiss_ingest_endpoint(t, name, readable, n)
                  \/ \E readable \in BOOLEAN :
                         qdrant_ingest_endpoint(t, name, readable, n)
                  \/ start_ingest(t, name, n)
                  \/ ingest_csv_to_faiss_find(t, name, n)
                  \/ ingest_csv_to_qdrant_find(t, name, n)
        \/ /\ FirstRequest
           /\ \E name \in RequestNames, query \in Queries,
                 top_k \in 1..MaxTopK, filter_category \in Filters :
                  \/ faiss_search_endpoint(t, name, query, top_k,
                                           filter_category)
                  \/ qdrant_search_endpoint(t, name, query, top_k,
                                            filter_category)
                  \/ query_endpoint(t, name, query, top_k, filter_category)
                  \/ search_faiss_index_find(t, name, query, top_k,
                                             filter_category)
                  \/ search_qdrant_collection_find(t, name, query, top_k,
                                                   filter_category)
        \/ \E fail \in BOOLEAN : ingest_csv_to_faiss_embed(t, fail)
        \/ ingest_csv_to_faiss_meta(t)
        \/ ingest_csv_to_faiss_save(t)
        \/ Kill(t)
        \/ \E fail \in BOOLEAN : ingest_csv_to_qdrant_embed(t, fail)
        \/ ingest_csv_to_qdrant_meta(t)
        \/ \E fail \in BOOLEAN : ingest_csv_to_qdrant_upsert(t, fail)
        \/ ingest_csv_to_qdrant_count(t)
        \/ ingest_csv_to_qdrant_update(t)
        \/ \E fail \in BOOLEAN : _create_actions_from_records(t, fail)
        \/ \E fail \in BOOLEAN : ingest_csv_to_index_bulk(t, fail)
        \/ \E fail \in BOOLEAN : search_faiss_index_search(t, fail)
        \/ search_faiss_index_lookup(t)
        \/ \E fail \in BOOLEAN : search_qdrant_collection_embed(t, fail)
        \/ search_qdrant_collection_search(t)
        \/ \E fail \in BOOLEAN : search_opensearch_embed(t, fail)
        \/ search_opensearch(t)
        \/ \E outcome \in PostOutcomes : generate(t, outcome)

SpecRequests == InitRequests /\ [][NextRequests]_vars

\* ------------------------------------------------------------ properties
\* The keys held by the stored blob of the FAISS container `name`
\* (what find_one + _deserialize_faiss_index would give now).
StoredFaissIds(name) ==
    IF FaissMatches(name) = <<>> THEN <<>>
    ELSE _deserialize_faiss_index(Head(FaissMatches(name)).index_data).ids

Finished(t, op, result) ==
    /\ thread[t].op = op
    /\ thread[t].pc = "done"
    /\ thread[t].result = result

\* A run of ingest_csv_to_faiss between its read of the stored blob and its
\* write-back.
InFaissCycle(t) ==
    /\ thread[t].op = "ingest_csv_to_faiss"
    /\ thread[t].pc \in {"embed_batch", "replace_one", "update_one"}

\* C1: no lost update on the FAISS blob: when two runs of
\* ingest_csv_to_faiss on the same index, each adding one vector, have both
\* completed, the stored blob holds both vectors and num_vectors counts them.
C1_NoLostUpdate ==
    \A t1, t2 \in Threads :
        ( /\ t1 # t2
          /\ Finished(t1, "ingest_csv_to_faiss", "ok")
          /\ Finished(t2, "ingest_csv_to_faiss", "ok")
          /\ thread[t1].name = thread[t2].name
          /\ Len(thread[t1].records) = 1
          /\ Len(thread[t2].records) = 1 )
        => LET name == thread[t1].name
               held == Range(StoredFaissIds(name))
           IN  /\ _id_to_int(thread[t1].records[1].chunk_id) \in held
               /\ _id_to_int(thread[t2].records[1].chunk_id) \in held
               /\ Head(FaissMatches(name)).num_vectors >= 2

\* C2: at most one mutator per container: no two runs of
\* ingest_csv_to_faiss on the same index are both between their read of
\* the blob and their write-back.
C2_AtMostOneMutator ==
    \A t1, t2 \in Threads :
        (t1 # t2 /\ InFaissCycle(t1) /\ InFaissCycle(t2))
        => thread[t1].name # thread[t2].name

\* C3: container names stay unique: faiss_indices and qdrant_collections
\* hold at most one record per name (every successful create inserts one
\* record, so at most one create per name has succeeded).
C3_UniqueNames ==
    \A name \in Names :
        /\ Len(FaissMatches(name)) <= 1
        /\ Len(QdrantMatches(name)) <= 1

\* The container `name` of the backend that the create call `op` serves has
\* its record (for OpenSearch, the index itself).
ContainerExists(op, name) ==
    CASE op = "create_faiss_index" -> FaissMatches(name) # <<>>
      [] op = "create_qdrant_collection" -> QdrantMatches(name) # <<>>
      [] op = "create_index" -> opensearch[name].exists
      [] OTHER -> FALSE

AlreadyExists(op) ==
    CASE op = "create_index" -> "HTTP 400: already exists"
      [] OTHER -> "ValueError: already exists"

CreateOps == {"create_faiss_index", "create_qdrant_collection", "create_index"}
BackendCreateCalls == {"insert_one", "recreate_collection", "indices.create"}

\* Thread t starts a call in this step.
Starts(t) == thread'[t].k = thread[t].k + 1

\* C4: a create call for a name whose container exists fails with the
\* already-exists error, issues no backend create call and leaves every
\* stored container (num_vectors, blob, dimension) unchanged.
C4_CreateExistingFails ==
    [][\A t \in Threads :
          ( /\ Starts(t)
            /\ thread'[t].op \in CreateOps
            /\ ContainerExists(thread'[t].op, thread'[t].name) )
          => /\ thread'[t].pc = "done"
             /\ thread'[t].result = AlreadyExists(thread'[t].op)
             /\ \A x \in DOMAIN thread'[t].log :
                    thread'[t].log[x].call \notin BackendCreateCalls
             /\ stores' = stores]_vars

\* C4 witness: create_faiss_index was refused for an index that holds
\* vectors.
C4_Witness ==
    \E t \in Threads :
        /\ Finished(t, "create_faiss_index", "ValueError: already exists")
        /\ Len(FaissMatches(thread[t].name)) = 1
        /\ Head(FaissMatches(thread[t].name)).num_vectors > 0

\* C5: creation never overwrites: no step reduces the point count of a
\* Qdrant collection.
C5_CreateNeverResets ==
    [][\A name \in Names :
          Cardinality(qdrant'[name].points) >= Cardinality(qdrant[name].points)
      ]_vars

\* C6: num_vectors never decreases: every write to the num_vectors of a
\* container record stores a value at least as large as the one before.
C6_CountMonotone ==
    [][/\ \A x \in DOMAIN faiss_indices :
              faiss_indices'[x].num_vectors >= faiss_indices[x].num_vectors
       /\ \A x \in DOMAIN qdrant_collections :
              qdrant_collections'[x].num_vectors
                  >= qdrant_collections[x].num_vectors]_vars

\* The vector of chunk_id is in the stored container of the run's backend.
VectorStored(op, name, chunk_id) ==
    CASE op = "ingest_csv_to_faiss" ->
             _id_to_int(chunk_id) \in Range(StoredFaissIds(name))
      [] op = "ingest_csv_to_qdrant" -> chunk_id \in qdrant[name].points
      [] OTHER -> FALSE

\* C7: a killed run leaves its completed batches committed: the vectors of
\* every batch completed before the kill (records 1..i) are in the stored
\* container, those of the batches after the interrupted one are not.
C7_KilledRunKeepsBatches ==
    \A t \in Threads :
        ( /\ thread[t].op \in {"ingest_csv_to_faiss", "ingest_csv_to_qdrant"}
          /\ thread[t].pc = "done"
          /\ thread[t].result = "killed" )
        => \A m \in DOMAIN thread[t].records :
               LET r == thread[t]
                   stored == VectorStored(r.op, r.name, r.records[m].chunk_id)
               IN  /\ m <= r.i => stored
                   /\ m > r.i + settings.BATCH_SIZE => ~stored

IngestOps == {"ingest_csv_to_faiss", "ingest_csv_to_qdrant",
              "ingest_csv_to_index"}
BatchCalls == {"embed_batch", "add_with_ids", "upsert", "bulk"}

\* The error a run reports when `call` raised.
ErrorOf(call) ==
    CASE call = "embed_batch" -> "embed_batch error"
      [] call = "add_with_ids" -> "add_with_ids error"
      [] call = "upsert" -> "upsert error"
      [] call = "bulk" -> "bulk error"
      [] OTHER -> "none"

\* C8: when the embedding call or the upsert of a batch raises, the run
\* ends with that error as its result and the raising call is the last
\* call it made: no retry, and no embedding call, upsert or metadata write
\* of a later batch.
C8_BatchFailureAborts ==
    \A t \in Threads :
        thread[t].op \in IngestOps =>
            \A x \in DOMAIN thread[t].log :
                LET e == thread[t].log[x]
                IN  (e.call \in BatchCalls /\ e.raised)
                    => /\ x = Len(thread[t].log)
                       /\ thread[t].pc = "done"
                       /\ thread[t].result = ErrorOf(e.call)

\* C8 witness: an upsert raised in a run that had completed an earlier
\* batch and still had a later batch to process.
C8_Witness ==
    \E t \in Threads :
        /\ Finished(t, "ingest_csv_to_qdrant", "upsert error")
        /\ thread[t].i > 0
        /\ thread[t].i + settings.BATCH_SIZE < Len(thread[t].records)

\* C9: within a batch the order is embedding, upsert, metadata: every
\* metadata write of a chunk is preceded in the run by the upsert of the
\* batch holding that chunk, itself preceded by the batch's embedding call.
C9_UpsertBeforeMetadata ==
    \A t \in Threads :
        \A x \in DOMAIN thread[t].log :
            LET log == thread[t].log
            IN  log[x].call = "replace_one" =>
                    \E u \in 1..(x - 1) :
                        /\ log[u].call \in {"add_with_ids", "upsert"}
                        /\ ~log[u].raised
                        /\ log[u].batch = log[x].batch
                        /\ log[x].ids[1] \in Range(log[u].ids)
                        /\ \E v \in 1..(u - 1) :
                               /\ log[v].call = "embed_batch"
                               /\ log[v].batch = log[x].batch

\* The embedding calls of a run, in the order they were made.
EmbedCalls(t) == SelectSeq(thread[t].log, LAMBDA e : e.call = "embed_batch")

CeilDiv(n, d) == (n + d - 1) \div d

\* The generator of a bulk run has yielded everything.
Exhausted(t) ==
    /\ thread[t].op = "ingest_csv_to_index"
    /\ \/ thread[t].pc = "bulk"
       \/ thread[t].pc = "done" /\ thread[t].result \in {"ok", "bulk error"}

\* The texts of the c-th consecutive slice of at most bs records.
ExpectedSlice(records, c, bs) ==
    [x \in 1..Min(bs, Len(records) - (c - 1) * bs) |->
        records[(c - 1) * bs + x].text]

\* C10: a run's c-th embedding call carries exactly the texts of the c-th
\* consecutive slice of at most BATCH_SIZE records; the actions yielded so
\* far are one per record of the embedded slices, in source order; a run
\* that went through all its records made ceil(n / BATCH_SIZE) calls and
\* yielded exactly one action per record.
C10_BatchesInSourceOrder ==
    \A t \in Threads :
        thread[t].op \in IngestOps =>
            LET r == thread[t]
                bs == settings.BATCH_SIZE
                n == Len(r.records)
                calls == EmbedCalls(t)
                embedded == SelectSeq(calls, LAMBDA e : ~e.raised)
            IN  /\ \A c \in DOMAIN calls :
                       /\ calls[c].batch = (c - 1) * bs
                       /\ calls[c].ids = ExpectedSlice(r.records, c, bs)
                       /\ Len(calls[c].ids) \in 1..bs
                /\ Len(calls) <= CeilDiv(n, bs)
                /\ \A x \in DOMAIN r.actions :
                       /\ x <= n
                       /\ r.actions[x].text = r.records[x].text
                /\ \A x, y \in DOMAIN r.actions :
                       x # y => r.actions[x]._id # r.actions[y]._id
                /\ r.op = "ingest_csv_to_index" =>
                       Len(r.actions) = Min(Len(embedded) * bs, n)
                /\ (r.pc = "done" /\ r.result = "ok") =>
                       Len(calls) = CeilDiv(n, bs)
                /\ Exhausted(t) =>
                       /\ Len(calls) = CeilDiv(n, bs)
                       /\ Len(r.actions) = n

\* C10 witness: a bulk run over 3 records with BATCH_SIZE 2 completed (two
\* slices, the second one short).
C10_Witness ==
    \E t \in Threads :
        /\ Finished(t, "ingest_csv_to_index", "ok")
        /\ Len(thread[t].records) = 3
        /\ settings.BATCH_SIZE = 2
        /\ Len(EmbedCalls(t)) = 2

\* Thread t takes this step as part of a run of ingest_csv_to_qdrant.
QdrantIngestStep(t) ==
    /\ thread'[t] # thread[t]
    /\ thread'[t].op = "ingest_csv_to_qdrant"

\* C11: concurrent ingestions are safe at the vector-storage layer of
\* Qdrant: no step of a run of ingest_csv_to_qdrant removes a point from a
\* collection, whatever the other runs have upserted in between, and an
\* upsert that returns leaves every point of its batch in the collection;
\* so the points of two runs are all there once both have completed.
C11_ConcurrentUpsertsKeepPoints ==
    [][\A t \in Threads :
          QdrantIngestStep(t) =>
              /\ \A name \in Names :
                     qdrant[name].points \subseteq qdrant'[name].points
              /\ ( /\ thread[t].pc = "upsert"
                    /\ thread'[t].pc \in {"embed_batch", "get_collection"} )
                  => LET e == thread'[t].log[Len(thread'[t].log)]
                     IN  qdrant'[thread[t].name].points =
                             qdrant[thread[t].name].points \cup Range(e.ids)
      ]_vars

\* C11 witness: two runs into the same collection are both past their
\* upserts at the same time, and the collection holds the points of both.
C11_Witness ==
    \E t1, t2 \in Threads :
        /\ t1 # t2
        /\ At(t1, "ingest_csv_to_qdrant", "get_collection")
        /\ At(t2, "ingest_csv_to_qdrant", "update_one")
        /\ thread[t1].name = thread[t2].name
        /\ Len(thread[t1].records) >= 1
        /\ Len(thread[t2].records) >= 1
        /\ Range(ChunkIds(thread[t1].records)) \cup
               Range(ChunkIds(thread[t2].records))
                  \subseteq qdrant[thread[t1].name].points

\* C12 as stated: whenever every thread's run of ingest_csv_to_qdrant into
\* a collection has completed, the num_vectors of the collection's record
\* equals the collection's points_count.
C12_CountMatchesBackend ==
    \A name \in Names :
        ( /\ QdrantMatches(name) # <<>>
          /\ \A t \in Threads :
                 /\ Finished(t, "ingest_csv_to_qdrant", "ok")
                 /\ thread[t].name = name )
        => Head(QdrantMatches(name)).num_vectors =
               Cardinality(qdrant[name].points)

\* C12 amended: a run reads points_count after its last batch and stores
\* that value when it completes; the stored num_vectors equals the
\* collection's points_count at that moment when nothing changed the
\* collection between the read and the write.
C12_StoresCountRead ==
    [][\A t \in Threads :
          /\ ( /\ At(t, "ingest_csv_to_qdrant", "get_collection")
                /\ thread'[t].pc = "update_one" )
              => thread'[t].count = Cardinality(qdrant[thread[t].name].points)
          /\ ( /\ At(t, "ingest_csv_to_qdrant", "update_one")
                /\ thread'[t].pc = "done"
                /\ thread'[t].result = "ok" )
              => LET name == thread[t].name
                     stored == SelectSeq(qdrant_collections',
                                   LAMBDA d : d.collection_name = name)
                 IN  /\ stored # <<>>
                     /\ Head(stored).num_vectors = thread[t].count
                     /\ Cardinality(qdrant[name].points) = thread[t].count
                            => Head(stored).num_vectors =
                                   Cardinality(qdrant'[name].points)
      ]_vars

\* C12 witness: two runs overlapped and both completed; the stored
\* num_vectors is the count one of them read before the other's upsert.
C12_Witness ==
    \E t1, t2 \in Threads :
        /\ t1 # t2
        /\ Finished(t1, "ingest_csv_to_qdrant", "ok")
        /\ Finished(t2, "ingest_csv_to_qdrant", "ok")
        /\ thread[t1].name = thread[t2].name
        /\ QdrantMatches(thread[t1].name) # <<>>
        /\ Head(QdrantMatches(thread[t1].name)).num_vectors
               < Cardinality(qdrant[thread[t1].name].points)

\* C13: upsert is idempotent by key: after any sequence of keyed writes a
\* store holds exactly one entry per key written (a write under a key that
\* is present replaced the entry, it did not add one): the keys of the FAISS
\* blob are pairwise distinct and num_vectors counts the distinct keys, a
\* Qdrant collection has one payload per point id, and the sidecar
\* collections hold one chunk record per chunk_id.
C13_UpsertIdempotent ==
    \A name \in Names :
        LET ids == StoredFaissIds(name)
        IN  /\ \A x, y \in DOMAIN ids : x # y => ids[x] # ids[y]
            /\ FaissMatches(name) # <<>> =>
                   Head(FaissMatches(name)).num_vectors =
                       Cardinality(Range(ids))
            /\ DOMAIN qdrant[name].payload = qdrant[name].points
            /\ \A d1, d2 \in faiss_chunks :
                   d1.chunk_id = d2.chunk_id => d1 = d2
            /\ \A d1, d2 \in qdrant_chunks :
                   d1.chunk_id = d2.chunk_id => d1 = d2

QueryOps == {"search_faiss_index", "search_qdrant_collection", "rag_answer"}
ClientSideOps == {"search_faiss_index", "search_qdrant_collection"}

\* The query of thread t returned a result (answer and contexts).
Answered(t) ==
    /\ thread[t].op \in QueryOps
    /\ thread[t].pc = "done"
    /\ thread[t].result = "ok"

\* C14: a search with a category filter returns only contexts of that
\* category, on every backend, for every container content and top_k.
C14_FilterRespected ==
    \A t \in Threads :
        (Answered(t) /\ thread[t].filter_category # "")
        => \A x \in DOMAIN thread[t].hits :
               thread[t].hits[x].category = thread[t].filter_category

\* C15 as stated: on every query path a result without contexts carries
\* the fixed answer and the generator was not invoked.
C15_NoHitsNoGenerator ==
    \A t \in Threads :
        (Answered(t) /\ thread[t].hits = <<>>)
        => /\ thread[t].answer = NoRelevantDocuments
           /\ thread[t].generate = <<>>

\* C15 amended: on the FAISS and Qdrant paths a result without contexts
\* carries the fixed answer and the generator was not invoked (it is
\* invoked only with at least one context); rag_answer has no such case:
\* without contexts it still invokes the generator, once, and returns the
\* generator's answer.
C15_NoHitsFixedAnswerClientSide ==
    \A t \in Threads :
        /\ (thread[t].op \in ClientSideOps /\ thread[t].pc = "generate")
           => thread[t].hits # <<>>
        /\ (Answered(t) /\ thread[t].hits = <<>>)
           => IF thread[t].op \in ClientSideOps
              THEN /\ thread[t].answer = NoRelevantDocuments
                   /\ thread[t].generate = <<>>
              ELSE /\ Len(thread[t].generate) = 1
                   /\ thread[t].generate[1].contexts = <<>>
                   /\ thread[t].answer = thread[t].generate[1].answer
                   /\ thread[t].answer \in Answers

\* C15 witness: a Qdrant search with a category filter over a collection
\* that holds points ended without contexts.
C15_Witness ==
    \E t \in Threads :
        /\ Answered(t)
        /\ thread[t].op = "search_qdrant_collection"
        /\ thread[t].hits = <<>>
        /\ thread[t].raw # <<>>
        /\ thread[t].answer = NoRelevantDocuments

\* C16: rag_answer invokes the generator exactly once per query, with the
\* query and the list of hits, also when the search returned no hit; the
\* result's contexts are the hits and its answer is what the generator
\* returned.
C16_GeneratorOncePerQuery ==
    \A t \in Threads :
        thread[t].op = "rag_answer" =>
            LET r == thread[t]
            IN  /\ r.pc \in {"embed", "search", "generate"} =>
                       r.generate = <<>>
                /\ (r.pc = "done" /\ r.result = "ok") =>
                       /\ Len(r.generate) = 1
                       /\ r.generate[1].query = r.query
                       /\ r.generate[1].contexts = r.hits
                       /\ r.answer = r.generate[1].answer
                       /\ Len(r.searched) = 1
                       /\ Len(r.hits) = Len(r.raw)

\* C16 witness: rag_answer returned a result without contexts.
C16_Witness ==
    \E t \in Threads :
        /\ Answered(t)
        /\ thread[t].op = "rag_answer"
        /\ thread[t].hits = <<>>
        /\ Len(thread[t].generate) = 1

\* C17 as stated: with a category filter the raw search call of FAISS and
\* of Qdrant asks for at least 2 * top_k candidates, whatever the number
\* of vectors stored.
C17_OverFetch ==
    \A t \in Threads :
        ( /\ thread[t].op \in ClientSideOps
          /\ thread[t].filter_category # ""
          /\ thread[t].searched # <<>> )
        => thread[t].searched[1] >= 2 * thread[t].top_k

\* C17 amended: with a category filter the raw search call asks Qdrant for
\* 2 * top_k candidates and FAISS for min(10 * top_k, ntotal) candidates,
\* ntotal being the number of vectors in the stored index; so at least
\* min(2 * top_k, vectors stored) in both cases.  One raw call per query.
C17_OverFetchUpToStored ==
    \A t \in Threads :
        ( /\ thread[t].op \in ClientSideOps
          /\ thread[t].filter_category # ""
          /\ thread[t].searched # <<>> )
        => LET r == thread[t]
               stored == IF r.op = "search_faiss_index"
                         THEN Len(StoredFaissIds(r.name))
                         ELSE Cardinality(qdrant[r.name].points)
           IN  /\ Len(r.searched) = 1
               /\ r.op = "search_faiss_index" =>
                      r.searched[1] = Min(10 * r.top_k, stored)
               /\ r.op = "search_qdrant_collection" =>
                      r.searched[1] = 2 * r.top_k
               /\ r.searched[1] >= Min(2 * r.top_k, stored)

\* C17 witness: a filtered FAISS search over an index of more than
\* 10 * top_k vectors asked for 10 * top_k candidates.
C17_Witness ==
    \E t \in Threads :
        /\ thread[t].op = "search_faiss_index"
        /\ thread[t].filter_category # ""
        /\ thread[t].searched = <<10 * thread[t].top_k>>
        /\ Len(StoredFaissIds(thread[t].name)) > 10 * thread[t].top_k

\* The FAISS chunk records of index `name` under the integer key.
FaissChunkDocs(name, faiss_int_id) ==
    {d \in faiss_chunks : d.index_name = name /\ d.faiss_int_id = faiss_int_id}

\* The category a raw hit of the query r carries (payload or metadata).
RawCategory(r, hit) ==
    CASE r.op = "search_faiss_index" ->
             (CHOOSE d \in FaissChunkDocs(r.name, hit) : TRUE).category
      [] r.op = "search_qdrant_collection" -> qdrant[r.name].payload[hit]
      [] OTHER -> opensearch[r.name].payload[hit]

\* The chunk id a raw hit of the query r stands for.
RawChunkId(r, hit) ==
    IF r.op = "search_faiss_index"
    THEN (CHOOSE d \in FaissChunkDocs(r.name, hit) : TRUE).chunk_id
    ELSE hit

\* The raw hits of the query r that survive the metadata join (FAISS) and
\* the category filter, in ranked order.
Survivors(r) ==
    SelectSeq(r.raw,
        LAMBDA hit :
            /\ r.op = "search_faiss_index" =>
                   hit # -1 /\ FaissChunkDocs(r.name, hit) # {}
            /\ r.filter_category # "" =>
                   RawCategory(r, hit) = r.filter_category)

\* C18: for every top_k >= 1 the contexts returned are exactly the first
\* min(top_k, m) of the m raw hits that survive filtering and metadata
\* joining, in ranked order, never more than top_k, and the generator
\* receives the contexts in the same order.
C18_FirstTopKSurvivors ==
    \A t \in Threads :
        (Answered(t) /\ thread[t].top_k >= 1)
        => LET r == thread[t]
               kept == Survivors(r)
               m == Len(kept)
           IN  /\ Len(r.hits) = Min(r.top_k, m)
               /\ Len(r.hits) <= r.top_k
               /\ \A x \in DOMAIN r.hits :
                      /\ r.hits[x].chunk_id = RawChunkId(r, kept[x])
                      /\ r.hits[x].category = RawCategory(r, kept[x])
               /\ r.generate # <<>> => r.generate[1].contexts = r.hits

\* C19: in a FAISS search the contexts are, in ranked order, those of the
\* raw hits examined so far that have a chunk record for the searched
\* index: a raw hit that is the -1 placeholder or has no such record adds
\* no context and does not count toward top_k (the loop goes on until it
\* has top_k contexts or the raw hits are used up), and every context is
\* built from a record whose index_name and faiss_int_id match its hit.
C19_OrphanHitsOmitted ==
    \A t \in Threads :
        ( /\ thread[t].op = "search_faiss_index"
          /\ thread[t].searched # <<>> )
        => LET r == thread[t]
               seen == SubSeq(r.raw, 1, r.x)
               joined == SelectSeq(seen,
                             LAMBDA hit : /\ hit # -1
                                          /\ FaissChunkDocs(r.name, hit) # {})
           IN  /\ Len(r.hits) = Len(joined)
               /\ Len(r.hits) <= r.top_k
               /\ \A x \in DOMAIN r.hits :
                      \E d \in faiss_chunks :
                          /\ d.index_name = r.name
                          /\ d.faiss_int_id = joined[x]
                          /\ d.chunk_id = r.hits[x].chunk_id
                          /\ d.category = r.hits[x].category
               /\ r.pc \in {"generate", "done"} =>
                      Len(r.hits) = r.top_k \/ r.x = Len(r.raw)

\* C19 witness: the best raw hit of a FAISS search had no chunk record,
\* and the search still returned top_k contexts.
C19_Witness ==
    \E t \in Threads :
        /\ Answered(t)
        /\ thread[t].op = "search_faiss_index"
        /\ FaissChunkDocs(thread[t].name, thread[t].raw[1]) = {}
        /\ Len(thread[t].hits) = thread[t].top_k
        /\ thread[t].x > thread[t].top_k

\* A cell that is missing (NaN), the empty string, or only whitespace.
NoText(text_value) ==
    \/ text_value.isna
    \/ (~text_value.falsy /\ text_value.str = <<<<>>>>)
    \/ (text_value.falsy /\ text_value.str = <<>>)

\* The texts of the rows, in source order, that the predicate does not
\* rule out.
TextsOfRows(rows, Skipped(_)) ==
    LET kept == SelectSeq(rows, LAMBDA v : ~Skipped(v))
    IN  [x \in DOMAIN kept |-> kept[x].str]

ChunkerTexts(r) == [x \in DOMAIN r.chunker |-> r.chunker[x].text]

\* C20 as stated: the row loop ends without raising, and the chunker was
\* called exactly once, in source order, for each row whose text is not
\* missing, empty or whitespace-only.
C20_SkipsRowsWithoutText ==
    \A t \in Threads :
        thread[t].pc = "done" =>
            /\ thread[t].result = "ok"
            /\ ChunkerTexts(thread[t]) = TextsOfRows(thread[t].rows, NoText)

\* A cell the row loop passes over: no text, or the text "nan" in any
\* letter case, or a value Python takes as false (the number 0).
PassedOver(text_value) ==
    \/ NoText(text_value)
    \/ text_value.falsy
    \/ text_value.str = <<<<NanWord>>>>

\* C20 amended: the row loop ends without raising; it passes over every
\* row whose text is missing (NaN), empty, whitespace-only, the word "nan"
\* in any letter case or a false value such as the number 0, and calls the
\* chunker exactly once, in source order, for each other row; records are
\* the chunks of the calls in order; a text of at most CHUNK_MAX_WORDS
\* words gives exactly one chunk, holding all its words.
C20_SkipsRowsWithoutTextOrNan ==
    \A t \in Threads :
        thread[t].op \in IngestOps =>
            LET r == thread[t]
                gone == SubSeq(r.rows, 1, r.row)
            IN  /\ r.pc = "done" => (r.result = "ok" /\ r.row = Len(r.rows))
                /\ ChunkerTexts(r) = TextsOfRows(gone, PassedOver)
                /\ \A x \in DOMAIN r.chunker :
                       Len(Words(r.chunker[x].text)) <= settings.CHUNK_MAX_WORDS
                       => r.chunker[x].chunks = <<Words(r.chunker[x].text)>>
                /\ Len(r.records) >= Len(r.chunker)

\* C20 witness: a source of 3 rows of which only the first has text, a
\* text that fits max_words: 1 chunker call, 1 chunk.
C20_Witness ==
    \E t \in Threads :
        /\ thread[t].op = "ingest_csv_to_index"
        /\ thread[t].pc = "done"
        /\ Len(thread[t].rows) = 3
        /\ ~NoText(thread[t].rows[1])
        /\ NoText(thread[t].rows[2]) /\ thread[t].rows[2].isna
        /\ NoText(thread[t].rows[3]) /\ ~thread[t].rows[3].isna
        /\ Len(thread[t].chunker) = 1
        /\ Len(thread[t].records) = 1

\* The vectors and the chunk metadata records the container `name` of the
\* backend of the ingestion `op` holds.
VectorsHeld(op, name) ==
    CASE op = "ingest_csv_to_faiss" -> Len(StoredFaissIds(name))
      [] op = "ingest_csv_to_qdrant" -> Cardinality(qdrant[name].points)
      [] OTHER -> Cardinality(opensearch[name].docs)

ChunkRecordsHeld(op, name) ==
    CASE op = "ingest_csv_to_faiss" ->
             Cardinality({d \in faiss_chunks : d.index_name = name})
      [] op = "ingest_csv_to_qdrant" ->
             Cardinality({d \in qdrant_chunks : d.collection_name = name})
      [] OTHER -> Cardinality(opensearch[name].docs)

\* The runs so far were one completed ingestion per thread in Ran, all of
\* the same source (n chunks) into the same container of one backend.
SameSourceRuns(op, name, n) ==
    \A t \in Ran :
        /\ Finished(t, op, "ok")
        /\ thread[t].k = 1
        /\ thread[t].name = name
        /\ Len(thread[t].records) = n

\* C21: re-ingestion duplicates: when the same source of n chunks has been
\* ingested into an empty container in runs one after another, each run
\* has added n new entries: after one run the container holds n vectors
\* and n chunk metadata records, after two runs 2n of each.
C21_ReingestDoubles ==
    \A op \in IngestOps, name \in Names, n \in 0..(MaxRecords + 1) :
        SameSourceRuns(op, name, n)
        => /\ VectorsHeld(op, name) = Cardinality(Ran) * n
           /\ ChunkRecordsHeld(op, name) = Cardinality(Ran) * n

\* C21 witness: two runs of the same two-chunk source into the FAISS index
\* have completed and the index holds four vectors and four chunk records.
C21_Witness ==
    /\ Cardinality(Ran) = 2
    /\ SameSourceRuns("ingest_csv_to_faiss", "kb", 2)
    /\ VectorsHeld("ingest_csv_to_faiss", "kb") = 4
    /\ ChunkRecordsHeld("ingest_csv_to_faiss", "kb") = 4

\* A call of the chunker with a string has returned.
Split(t) ==
    /\ thread[t].op = "simple_sentence_split"
    /\ thread[t].pc = "done"
    /\ thread[t].text.type = "str"

\* The sentences of the text of a call, as the loop goes through them.
SentencesOf(r) == strip(r.text.str)

\* C22: with overlap = 0 no word is lost or duplicated: the words of the
\* returned chunks, in order, are the words of the input, in order.
C22_NoWordLostOrDuplicated ==
    \A t \in Threads :
        (Split(t) /\ thread[t].overlap = 0)
        => Words(thread[t].chunks) = Words(thread[t].text.str)

\* C22 witness: a call with overlap 0 on a text of three sentences that
\* returned more than one chunk.
C22_Witness ==
    \E t \in Threads :
        /\ Split(t) /\ thread[t].overlap = 0
        /\ Len(SentencesOf(thread[t])) = 3
        /\ Len(thread[t].chunks) > 1
        /\ Words(thread[t].chunks) = Words(thread[t].text.str)

\* The first n words and the last n words of a chunk (all of its words
\* when it has fewer).
FirstWords(words, n) == SubSeq(words, 1, Min(n, Len(words)))
FinalWords(words, n) ==
    SubSeq(words, Len(words) - Min(n, Len(words)) + 1, Len(words))

\* The `chunk` goes on, after its first n words, with the sentence sent.
GoesOnWith(chunk, n, sent) ==
    /\ Len(chunk) >= n + Len(sent)
    /\ SubSeq(chunk, n + 1, n + Len(sent)) = sent

\* C23 as stated: for overlap > 0 and more than one chunk, the last
\* `overlap` words of chunk i are the first `overlap` words of chunk i+1,
\* and the sentence that triggered the overflow follows them in chunk i+1.
C23_OverlapWordsRepeated ==
    \A t \in Threads :
        (Split(t) /\ thread[t].overlap > 0 /\ Len(thread[t].chunks) > 1)
        => \A i \in 1..(Len(thread[t].chunks) - 1) :
               LET r == thread[t]
               IN  /\ FinalWords(r.chunks[i], r.overlap)
                          = FirstWords(r.chunks[i + 1], r.overlap)
                   /\ \E x \in DOMAIN SentencesOf(r) :
                          GoesOnWith(r.chunks[i + 1], r.overlap,
                                     SentencesOf(r)[x])

\* C23 amended: for overlap > 0 and more than one chunk, chunk i+1 begins
\* with the last `overlap` words of chunk i, or with all words of chunk i
\* when it has fewer than `overlap`, and goes on with the sentence that
\* triggered the overflow (the sentence that did not fit into chunk i).
C23_OverlapWordsCarriedOver ==
    \A t \in Threads :
        (Split(t) /\ thread[t].overlap > 0 /\ Len(thread[t].chunks) > 1)
        => \A i \in 1..(Len(thread[t].chunks) - 1) :
               LET r == thread[t]
                   carried == Min(r.overlap, Len(r.chunks[i]))
               IN  /\ FinalWords(r.chunks[i], r.overlap)
                          = FirstWords(r.chunks[i + 1], carried)
                   /\ \E x \in DOMAIN SentencesOf(r) :
                          /\ GoesOnWith(r.chunks[i + 1], carried,
                                        SentencesOf(r)[x])
                          /\ Len(r.chunks[i]) + Len(SentencesOf(r)[x])
                                 > r.max_words

\* C23 witness: a call with overlap 2 whose first chunk has one word and
\* whose second chunk begins with that word.
C23_Witness ==
    \E t \in Threads :
        /\ Split(t) /\ thread[t].overlap = 2
        /\ Len(thread[t].chunks) = 3
        /\ Len(thread[t].chunks[1]) = 1
        /\ thread[t].chunks[2][1] = thread[t].chunks[1][1]

\* C24: None, a value that is no string, the empty string and
\* whitespace-only text give no chunks, and no call returns an empty chunk.
C24_DegenerateInputsGiveNoChunks ==
    \A t \in Threads :
        thread[t].op = "simple_sentence_split" =>
            LET r == thread[t]
            IN  /\ r.result = "ok"
                /\ (r.text.type # "str" \/ strip(r.text.str) = <<>>)
                       => r.chunks = <<>>
                /\ \A x \in DOMAIN r.chunks : r.chunks[x] # <<>>

\* C27 as stated: every chunk has at most max_words words or is exactly
\* one sentence of the text.
C27_ChunkWithinLimitOrOneSentence ==
    \A t \in Threads :
        Split(t) =>
            \A x \in DOMAIN thread[t].chunks :
                \/ Len(thread[t].chunks[x]) <= thread[t].max_words
                \/ thread[t].chunks[x] \in Range(SentencesOf(thread[t]))

\* C27 amended: every chunk has at most max_words words, or is exactly one
\* sentence of the text, or (overlap > 0, not the first chunk) is the last
\* `overlap` words of the chunk before it followed by exactly one
\* sentence; with overlap = 0 only a single sentence exceeds the limit.
C27_ChunkWithinLimitOrSeededSentence ==
    \A t \in Threads :
        Split(t) =>
            LET r == thread[t]
            IN  \A x \in DOMAIN r.chunks :
                    \/ Len(r.chunks[x]) <= r.max_words
                    \/ r.chunks[x] \in Range(SentencesOf(r))
                    \/ /\ r.overlap > 0
                       /\ x > 1
                       /\ \E y \in DOMAIN SentencesOf(r) :
                              r.chunks[x] =
                                  FinalWords(r.chunks[x - 1], r.overlap)
                                      \o SentencesOf(r)[y]

\* C27 witness: with overlap 1 and max_words 3 a chunk of four words that
\* is one carried-over word and a sentence of three words.
C27_Witness ==
    \E t \in Threads :
        /\ Split(t) /\ thread[t].overlap = 1 /\ thread[t].max_words = 3
        /\ \E x \in DOMAIN thread[t].chunks :
               /\ x > 1
               /\ Len(thread[t].chunks[x]) = 4
               /\ thread[t].chunks[x] \notin Range(SentencesOf(thread[t]))

\* C25: OllamaGenerator.generate posts to the generation endpoint exactly
\* once per invocation and never raises: the query it ends completes with
\* the answer it returned, which is the error text when the call raised,
\* had an HTTP error status or a body that is no JSON, the empty string
\* when the response has no "response" field, and the response's text
\* otherwise.
C25_GenerateNeverRaises ==
    \A t \in Threads :
        \A x \in DOMAIN thread[t].generate :
            LET r == thread[t]
                call == r.generate[x]
            IN  /\ Len(call.post) = 1
                /\ r.pc = "done" /\ r.result = "ok"
                /\ r.answer = call.answer
                /\ call.post[1] \in {"ConnectionError", "HTTPError",
                                     "JSONDecodeError"}
                       => call.answer = "Generation error"
                /\ call.post[1] = "no response field" => call.answer = ""
                /\ call.post[1] = "response" => call.answer = "response"

\* C25 witness: a query whose generation call had an HTTP error status
\* completed with the error text as its answer.
C25_Witness ==
    \E t \in Threads :
        /\ thread[t].pc = "done" /\ thread[t].result = "ok"
        /\ Len(thread[t].generate) = 1
        /\ thread[t].generate[1].post = <<"HTTPError">>
        /\ thread[t].answer = "Generation error"

FaissRequests == {"faiss.ingest_endpoint", "ingest_csv_to_faiss",
                  "faiss.search_endpoint", "search_faiss_index"}
QdrantRequests == {"qdrant.ingest_endpoint", "ingest_csv_to_qdrant",
                   "qdrant.search_endpoint", "search_qdrant_collection"}
SearchRequests == {"faiss.search_endpoint", "search_faiss_index",
                   "qdrant.search_endpoint", "search_qdrant_collection",
                   "rag_answer"}

\* The backend the request `op` goes to has a container record for `name`
\* (for OpenSearch, the index itself).
HasContainerRecord(op, name) ==
    IF op \in FaissRequests THEN FaissMatches(name) # <<>>
    ELSE IF op \in QdrantRequests THEN QdrantMatches(name) # <<>>
    ELSE opensearch[name].exists

\* The error a request for a missing container ends with: HTTP 400 at the
\* endpoints (for the two ingest endpoints that check the CSV first, also
\* the HTTP 400 of that check), ValueError in the service functions.
NotFoundErrors(op) ==
    CASE op \in {"faiss.ingest_endpoint", "qdrant.ingest_endpoint"} ->
             {"HTTP 400: does not exist", "HTTP 400: cannot read CSV"}
      [] op = "ingest_csv_to_index" -> {"HTTP 400: does not exist"}
      [] op \in {"faiss.search_endpoint", "qdrant.search_endpoint",
                 "rag_answer"} -> {"HTTP 400: not found"}
      [] OTHER -> {"ValueError: not found"}

\* The request made no call but the checks themselves: no embedding call,
\* no search, no write, no generation, and no task took up its records.
OnlyChecked(r) ==
    IF r.op \in SearchRequests
    THEN r.searched = <<>> /\ r.hits = <<>> /\ r.generate = <<>>
    ELSE /\ r.records = <<>> /\ r.actions = <<>>
         /\ \A x \in DOMAIN r.log :
                r.log[x].call \in {"read_csv", "find_one", "indices.exists"}

C28_CountMatchesBlob ==
    \A x \in DOMAIN faiss_indices :
        faiss_indices[x].num_vectors =
            ntotal(_deserialize_faiss_index(faiss_indices[x].index_data))

\* C28 witness: a second run has saved an index that held vectors before:
\* the record holds more vectors than the run added, and counts them.
C28_Witness ==
    \E t \in Threads :
        /\ Finished(t, "ingest_csv_to_faiss", "ok")
        /\ Len(thread[t].records) > 0
        /\ \E x \in DOMAIN faiss_indices :
               /\ faiss_indices[x].index_name = thread[t].name
               /\ faiss_indices[x].num_vectors > Len(thread[t].records)
               /\ faiss_indices[x].num_vectors =
                      ntotal(_deserialize_faiss_index(
                                 faiss_indices[x].index_data))

\* The integer keys of the vectors in the stored blob of record x.
BlobKeys(x) ==
    LET index == _deserialize_faiss_index(faiss_indices[x].index_data)
    IN  {index.ids[m] : m \in DOMAIN index.ids}

\* The chunk metadata records a search of name finds for a key.
MetadataOf(name, faiss_int_id) ==
    {d \in faiss_chunks :
        d.index_name = name /\ d.faiss_int_id = faiss_int_id}

EveryBlobKeyHasMetadata ==
    \A x \in DOMAIN faiss_indices :
        \A key \in BlobKeys(x) :
            MetadataOf(faiss_indices[x].index_name, key) # {}

\* No step takes away the metadata of an (index_name, faiss_int_id) pair.
MetadataKept ==
    \A d \in faiss_chunks :
        \E e \in faiss_chunks' :
            e.index_name = d.index_name /\ e.faiss_int_id = d.faiss_int_id

\* C29: in every reachable state every key of every stored blob has a chunk
\* metadata record with the container's index_name and that faiss_int_id,
\* and no step removes such a record: a search that reads the blob at any
\* moment finds, then and at any later moment, metadata for each of its
\* hits.
C29_BlobKeysHaveMetadata ==
    /\ []EveryBlobKeyHasMetadata
    /\ [][MetadataKept]_vars

\* C29 witness: a run of more than one batch has persisted its blob while
\* another run is between its read of the blob and its save, and every key
\* of the stored blob has its metadata.
C29_Witness ==
    \E t, u \in Threads :
        /\ Finished(t, "ingest_csv_to_faiss", "ok")
        /\ Len(thread[t].records) > settings.BATCH_SIZE
        /\ InFaissCycle(u)
        /\ \E x \in DOMAIN faiss_indices :
               /\ faiss_indices[x].index_name = thread[t].name
               /\ Cardinality(BlobKeys(x)) >= Len(thread[t].records)
               /\ \A key \in BlobKeys(x) :
                      MetadataOf(thread[t].name, key) # {}

\* The records of a collection of container records, by position, that do
\* not carry the name.
OtherRecords(coll, name, field) ==
    {<<x, coll[x]>> : x \in {y \in DOMAIN coll : coll[y][field] # name}}

\* The chunk metadata records that belong to another container.
OtherChunks(coll, name, field) == {d \in coll : d[field] # name}

\* A step of a run on container name leaves everything stored for the other
\* containers as it is.
LeavesOthers(name) ==
    /\ OtherRecords(faiss_indices', name, "index_name") =
           OtherRecords(faiss_indices, name, "index_name")
    /\ OtherChunks(faiss_chunks', name, "index_name") =
           OtherChunks(faiss_chunks, name, "index_name")
    /\ OtherRecords(qdrant_collections', name, "collection_name") =
           OtherRecords(qdrant_collections, name, "collection_name")
    /\ OtherChunks(qdrant_chunks', name, "collection_name") =
           OtherChunks(qdrant_chunks, name, "collection_name")
    /\ \A other \in DOMAIN qdrant \ {name} : qdrant'[other] = qdrant[other]

IngestionOps == {"ingest_csv_to_faiss", "ingest_csv_to_qdrant"}

\* C30: every step of an ingestion run on container A, however it
\* interleaves with runs on other containers, leaves every other
\* container's record (blob, num_vectors, dimension), every chunk metadata
\* record of another container and every other Qdrant collection unchanged,
\* and adds nothing to them.
C30_OtherContainersUnchanged ==
    [][\A t \in Threads :
          (thread'[t] # thread[t] /\ thread'[t].op \in IngestionOps)
              => LeavesOthers(thread'[t].name)]_vars

\* C30 witness: a run on one container has saved its vectors while a run on
\* another container, with its metadata written, is about to save; the
\* other container's record is still as created.
C30_Witness ==
    \E t, u \in Threads :
        /\ Finished(t, "ingest_csv_to_faiss", "ok")
        /\ Len(thread[t].records) > 0
        /\ At(u, "ingest_csv_to_faiss", "update_one")
        /\ Len(thread[u].records) > 0
        /\ thread[u].name # thread[t].name
        /\ OtherChunks(faiss_chunks, thread[t].name, "index_name") # {}
        /\ faiss_indices[FirstFaiss(thread[t].name)].num_vectors =
               Len(thread[t].records)
        /\ faiss_indices[FirstFaiss(thread[u].name)] =
               EmptyFaissRecord(thread[u].name)

====
